---- MODULE Spec2Model ----
(***************************************************************************)
(* A model of the Picterra API client (class APIClient).  Every public     *)
(* method is an async function: it runs synchronously up to its first      *)
(* await, and is resumed when the awaited fetch settles or the awaited     *)
(* sleep timer fires.  The server and the network are the environment.     *)
(***************************************************************************)
EXTENDS Integers, Sequences, FiniteSets, TLC

\* ------------------------------------------------------------------ bounds
\* Number of answered status polls whose events an invocation's trace keeps;
\* what happens from the next answer on still happens but is not recorded.
MaxPolls == 3
\* Largest number of pages a listing has.
MaxPages == 3

\* ------------------------------------------------------- program constants
DefaultTimeoutSeconds == 300
HttpOkLow == 200
HttpOkHigh == 299

Procs == {"p1"}

\* The value a template literal or a property read yields for a missing field.
Undefined == "undefined"

\* ------------------------------------------------------------ JS values
VStr(s) == [t |-> "string", v |-> s]
VTrue == [t |-> "boolean", v |-> "true"]
VUndef == [t |-> "undefined", v |-> Undefined]
VNull == [t |-> "null", v |-> "null"]
VNum(n) == [t |-> "number", v |-> n]
VObj(d) == [t |-> "object", v |-> d]
VList(l) == [t |-> "array", v |-> l]
\* a value read from a response (a missing field reads as undefined)
JsVal(x) == IF x = Undefined THEN VUndef ELSE VStr(x)

\* ---------------------------------------------------------------- errors
NoError == [name |-> "none", msg |-> <<>>, body |-> ""]
\* class APIError: name 'ApiError', message and body
APIError(msg, body) == [name |-> "ApiError", msg |-> msg, body |-> body]
\* class ValidationError: name 'Validation Error'
ValidationError(msg) == [name |-> "Validation Error", msg |-> msg, body |-> ""]
\* what fetch rejects with when the connection fails
FetchError == [name |-> "FetchError", msg |-> <<"request failed">>, body |-> ""]
\* what response.json() rejects with on a body that is not JSON
JsonError == [name |-> "FetchError", msg |-> <<"invalid json response body">>, body |-> ""]
\* what node-fetch rejects with when the URL is not absolute, and what a
\* property access on null/undefined throws
TypeError(msg) == [name |-> "TypeError", msg |-> msg, body |-> ""]

\* ------------------------------------------------------------- responses
ok(response) == response.status >= HttpOkLow /\ response.status <= HttpOkHigh

\* async function checkResponse: the error it throws, NoError when it returns
checkResponse(response) ==
  IF ~ok(response)
    THEN APIError(<<"Error from API: status code", ToString(response.status)>>,
                  response.body.text)
    ELSE NoError

\* a field of a parsed JSON object; a missing key reads as undefined
Field(data, key) == IF key \in DOMAIN data THEN data[key] ELSE Undefined

\* ------------------------------------------------------------- the client
\* constructor (apiKey, baseUrl, timeoutSeconds)
APIClient(apiKey, baseUrl, timeoutSeconds) ==
  [apiKey |-> apiKey, baseUrl |-> baseUrl, _timeout |-> timeoutSeconds * 60 * 1000]

\* process.env, as far as the constructor reads it; a variable that is not
\* set reads as undefined
ProcessEnv(key, url) == [PICTERRA_API_KEY |-> key, PICTERRA_BASE_URL |-> url]
\* !x of a string or undefined
Not(x) == x \in {Undefined, ""}
DefaultBaseUrl == "https://app.picterra.ch/public/api/v2/"
\* the object before the constructor has assigned its fields
NoClient == [apiKey |-> Undefined, baseUrl |-> Undefined, _timeout |-> 0]

\* new APIClient(apiKey, baseUrl, timeoutSeconds) with process.env = e: the
\* error thrown (NoError when none) and the object built
constructor(e, apiKey, baseUrl, timeoutSeconds) ==
  IF Not(apiKey) /\ Not(e.PICTERRA_API_KEY)
    THEN [error |-> APIError(<<"apiKey is undefined and PICTERRA_API_KEY ",
                               "environment variable is not defined">>, ""),
          this |-> NoClient]
    ELSE [error |-> NoError,
          this |-> APIClient(
            IF Not(apiKey) THEN e.PICTERRA_API_KEY ELSE apiKey,
            IF ~Not(baseUrl) THEN baseUrl
            ELSE IF ~Not(e.PICTERRA_BASE_URL) THEN e.PICTERRA_BASE_URL ELSE DefaultBaseUrl,
            timeoutSeconds)]

\* the constructor of the built client (dist/Client.js): `throw APIError(...)`
\* calls the class without `new`, which throws a TypeError
dist_constructor(e, apiKey, baseUrl, timeoutSeconds) ==
  IF Not(apiKey) /\ Not(e.PICTERRA_API_KEY)
    THEN [error |-> TypeError(<<"Class constructor APIError cannot be invoked without 'new'">>),
          this |-> NoClient]
    ELSE [error |-> NoError,
          this |-> APIClient(
            IF Not(apiKey) THEN e.PICTERRA_API_KEY ELSE apiKey,
            IF ~Not(baseUrl) THEN baseUrl
            ELSE IF ~Not(e.PICTERRA_BASE_URL) THEN e.PICTERRA_BASE_URL ELSE DefaultBaseUrl,
            timeoutSeconds)]

NoHeaders == <<>>
NoBody == [kind |-> "null"]
StreamBody(file) == [kind |-> "stream", file |-> file]
JsonBody(obj) == [kind |-> "json", json |-> obj]

\* variant: the API key is attached whatever `internal` says
_request_alwaysKey(c, path, method, headers, body, internal) ==
  [method |-> method,
   url |-> IF internal THEN <<c.baseUrl>> \o path ELSE path,
   headers |-> headers @@ ("X-Api-Key" :> c.apiKey),
   body |-> body]

\* _request(path, method, headers, body, internal): the request handed to fetch
_request(c, path, method, headers, body, internal) ==
  [method |-> method,
   url |-> IF internal THEN <<c.baseUrl>> \o path ELSE path,
   headers |-> headers @@ (IF internal THEN ("X-Api-Key" :> c.apiKey) ELSE NoHeaders),
   body |-> body]

JsonHeaders == ("content-type" :> "application/json")

\* ---------------------------------------------- effects of one resumption
\* What a coroutine does between two suspension points: the requests it
\* hands to fetch, the timer it starts, whether it called response.json(),
\* the files it opens for writing, and how it settles (if it does).
Pending == [state |-> "pending", value |-> VUndef, error |-> NoError]

Send(pc, loc, req, parsed) ==
  [pc |-> pc, loc |-> loc, send |-> <<req>>, sleep |-> <<>>, parsed |-> parsed,
   wrote |-> <<>>, out |-> Pending]
Sleep(pc, loc, tenths, parsed) ==
  [pc |-> pc, loc |-> loc, send |-> <<>>, sleep |-> <<tenths>>, parsed |-> parsed,
   wrote |-> <<>>, out |-> Pending]
Resolve(loc, value, parsed) ==
  [pc |-> "done", loc |-> loc, send |-> <<>>, sleep |-> <<>>, parsed |-> parsed,
   wrote |-> <<>>, out |-> [state |-> "resolved", value |-> value, error |-> NoError]]
Reject(loc, error, parsed) ==
  [pc |-> "done", loc |-> loc, send |-> <<>>, sleep |-> <<>>, parsed |-> parsed,
   wrote |-> <<>>, out |-> [state |-> "rejected", value |-> VUndef, error |-> error]]

\* locals of an invocation (only the ones its method declares are used)
NoLocals ==
  [uploadUrl |-> Undefined, resourceId |-> Undefined, operationId |-> Undefined,
   pollInterval |-> 0, list |-> <<>>, pageNum |-> 0, timeout |-> 0, observedAt |-> 0]

\* sleep(s) starts a timer of s seconds; durations are kept in tenths of a
\* second, so sleep(pollInterval * 0.1) is pollInterval tenths and
\* sleep(pollInterval) is 10 * pollInterval tenths.
TenthsPerSecond == 10

\* ------------------------------------------ _waitUntilOperationCompletes
\* variant: the first sleep lasts a whole poll interval
_waitUntilOperationCompletes_fullFirstSleep(loc, operationId, pollInterval, parsed) ==
  Sleep("wait_sleep0",
        [loc EXCEPT !.operationId = operationId, !.pollInterval = pollInterval],
        pollInterval * TenthsPerSecond, parsed)

\* entry: await sleep(pollInterval * 0.1)
_waitUntilOperationCompletes(loc, operationId, pollInterval, parsed) ==
  Sleep("wait_sleep0",
        [loc EXCEPT !.operationId = operationId, !.pollInterval = pollInterval],
        pollInterval, parsed)

\* loop head: const response = await this._request(`/operations/${operationId}/`)
waitPollRequest(c, loc) ==
  Send("wait_poll", loc,
       _request(c, <<"operations", loc.operationId>>, "GET", NoHeaders, NoBody, TRUE),
       FALSE)

\* variant: every polling method returns true once the wait returns
afterWait_returnsTrue(op, a, loc) == Resolve(loc, VTrue, TRUE)

\* what the calling method does once the wait returns
afterWait(op, a, loc) ==
  CASE op = "uploadRaster" -> Resolve(loc, JsVal(loc.resourceId), TRUE)
    [] op = "runDetector"  -> Resolve(loc, JsVal(loc.operationId), TRUE)
    \* dist/Client.js: setAnnotations and trainDetector end without a return
    [] op \in {"dist_setAnnotations", "dist_trainDetector"} -> Resolve(loc, VUndef, TRUE)
    [] OTHER               -> Resolve(loc, VTrue, TRUE)

\* variant: the loop does not leave on 'success'
waitPollResponse_successKeepsPolling(op, a, loc, response) ==
  IF checkResponse(response) # NoError THEN Reject(loc, checkResponse(response), FALSE)
  ELSE IF ~response.body.json THEN Reject(loc, JsonError, TRUE)
  ELSE LET status == Field(response.body.data, "status") IN
    IF status = "failed"
      THEN Reject(loc, APIError(<<"Operation", loc.operationId, "failed.">>, ""), TRUE)
      ELSE Sleep("wait_sleep", loc, loc.pollInterval * TenthsPerSecond, TRUE)

\* variant: the loop does not throw on 'failed'
waitPollResponse_failedKeepsPolling(op, a, loc, response) ==
  IF checkResponse(response) # NoError THEN Reject(loc, checkResponse(response), FALSE)
  ELSE IF ~response.body.json THEN Reject(loc, JsonError, TRUE)
  ELSE LET status == Field(response.body.data, "status") IN
    IF status = "success" THEN afterWait(op, a, loc)
      ELSE Sleep("wait_sleep", loc, loc.pollInterval * TenthsPerSecond, TRUE)

\* variant: a poll answered non-2xx is tried again after the sleep
waitPollResponse_retriesOnError(op, a, loc, response) ==
  IF checkResponse(response) # NoError
    THEN Sleep("wait_sleep", loc, loc.pollInterval * TenthsPerSecond, FALSE)
  ELSE IF ~response.body.json THEN Reject(loc, JsonError, TRUE)
  ELSE LET status == Field(response.body.data, "status") IN
    IF status = "success" THEN afterWait(op, a, loc)
    ELSE IF status = "failed"
      THEN Reject(loc, APIError(<<"Operation", loc.operationId, "failed.">>, ""), TRUE)
      ELSE Sleep("wait_sleep", loc, loc.pollInterval * TenthsPerSecond, TRUE)

\* variant: only the statuses known to mean "not done yet" keep the loop going
waitPollResponse_unknownIsFailed(op, a, loc, response) ==
  IF checkResponse(response) # NoError THEN Reject(loc, checkResponse(response), FALSE)
  ELSE IF ~response.body.json THEN Reject(loc, JsonError, TRUE)
  ELSE LET status == Field(response.body.data, "status") IN
    IF status = "success" THEN afterWait(op, a, loc)
    ELSE IF status \notin {"pending", "running", "processing"}
      THEN Reject(loc, APIError(<<"Operation", loc.operationId, "failed.">>, ""), TRUE)
      ELSE Sleep("wait_sleep", loc, loc.pollInterval * TenthsPerSecond, TRUE)

\* loop body after the response arrived
waitPollResponse(op, a, loc, response) ==
  IF checkResponse(response) # NoError THEN Reject(loc, checkResponse(response), FALSE)
  ELSE IF ~response.body.json THEN Reject(loc, JsonError, TRUE)
  ELSE LET status == Field(response.body.data, "status") IN
    IF status = "success" THEN afterWait(op, a, loc)
    ELSE IF status = "failed"
      THEN Reject(loc, APIError(<<"Operation", loc.operationId, "failed.">>, ""), TRUE)
      ELSE Sleep("wait_sleep", loc, loc.pollInterval * TenthsPerSecond, TRUE)

\* variant: the wait is not awaited, the method returns the id at once
startWait_notAwaited(loc, response) ==
  IF checkResponse(response) # NoError THEN Reject(loc, checkResponse(response), FALSE)
  ELSE IF ~response.body.json THEN Reject(loc, JsonError, TRUE)
  ELSE Resolve([loc EXCEPT !.operationId = Field(response.body.data, "operation_id")],
               JsVal(Field(response.body.data, "operation_id")), TRUE)

\* variant: a commit answered non-2xx is followed by a DELETE of the resource
startWait_cleansUp(loc, response) ==
  IF checkResponse(response) # NoError
    THEN Send("checked", loc,
              [method |-> "DELETE", url |-> <<"https://api", "rasters", loc.resourceId>>,
               headers |-> ("X-Api-Key" :> "secret"), body |-> NoBody],
              FALSE)
  ELSE IF ~response.body.json THEN Reject(loc, JsonError, TRUE)
  ELSE _waitUntilOperationCompletes(loc,
         Field(response.body.data, "operation_id"),
         response.body.data["poll_interval"], TRUE)

\* the step every polling method shares: POST answered with {operation_id, poll_interval}
startWait(loc, response) ==
  IF checkResponse(response) # NoError THEN Reject(loc, checkResponse(response), FALSE)
  ELSE IF ~response.body.json THEN Reject(loc, JsonError, TRUE)
  ELSE _waitUntilOperationCompletes(loc,
         Field(response.body.data, "operation_id"),
         response.body.data["poll_interval"], TRUE)

\* ------------------------------------------------------ String.toLowerCase
UpperLetters ==
  <<"A","B","C","D","E","F","G","H","I","J","K","L","M",
    "N","O","P","Q","R","S","T","U","V","W","X","Y","Z">>
LowerLetters ==
  <<"a","b","c","d","e","f","g","h","i","j","k","l","m",
    "n","o","p","q","r","s","t","u","v","w","x","y","z">>
LowerChar(ch) ==
  IF \E i \in DOMAIN UpperLetters : UpperLetters[i] = ch
    THEN LowerLetters[CHOOSE i \in DOMAIN UpperLetters : UpperLetters[i] = ch]
    ELSE ch
\* A string whose letter case matters is given as its sequence of
\* characters; toLowerCase maps it character by character.
RECURSIVE Chars(_)
Chars(s) == IF s = <<>> THEN "" ELSE Head(s) \o Chars(Tail(s))
toLowerCase(s) == Chars([i \in DOMAIN s |-> LowerChar(s[i])])

\* JS truthiness of an argument: if (x) ...
Truthy(x) ==
  CASE x.t = "string" -> x.v # <<>>
    [] x.t = "number" -> x.v # 0
    [] x.t = "boolean" -> x.v = "true"
    [] OTHER -> FALSE
\* a default parameter value replaces undefined only
Default(x, d) == IF x.t = "undefined" THEN d ELSE x
\* ToNumber for the relational operators: null is 0
ToNumber(x) == IF x.t = "null" THEN 0 ELSE x.v

detectionTypes == {"count", "segmentation"}
outputTypes == {"polygon", "bbox"}
range == <<500, 40 * 1000>>

\* ---------------------------------------------------------- createDetector
\* variant: detectionType is compared and sent as the caller wrote it
createDetector_caseSensitive(c, a) ==
  LET name == Default(a.name, VStr(<<>>))
      detectionType0 == Default(a.detectionType, VStr(<<"c","o","u","n","t">>))
      outputType0 == Default(a.outputType, VStr(<<"p","o","l","y","g","o","n">>))
      trainingSteps == Default(a.trainingSteps, VNum(500))
  IN
  IF detectionType0.t # "string" \/ outputType0.t # "string"
    THEN Reject(NoLocals, TypeError(<<"Cannot read property 'toLowerCase'">>), FALSE)
  ELSE LET detectionType == Chars(detectionType0.v)
           outputType == toLowerCase(outputType0.v)
  IN
  IF detectionType \notin detectionTypes
    THEN Reject(NoLocals, ValidationError(<<"Invalid detector type">>), FALSE)
  ELSE IF outputType \notin outputTypes
    THEN Reject(NoLocals, ValidationError(<<"Invalid output type">>), FALSE)
  ELSE IF ToNumber(trainingSteps) < range[1] \/ ToNumber(trainingSteps) > range[2]
    THEN Reject(NoLocals, ValidationError(<<"Training steps value is outside range">>), FALSE)
  ELSE Send("create", NoLocals,
         _request(c, <<"detectors">>, "POST", JsonHeaders,
           JsonBody(("name" :> name) @@
                    ("configuration" :>
                       (("detection_type" :> VStr(detectionType)) @@
                        ("output_type" :> VStr(outputType)) @@
                        ("training_steps" :> trainingSteps)))),
           TRUE),
         FALSE)

createDetector(c, a) ==
  LET name == Default(a.name, VStr(<<>>))
      detectionType0 == Default(a.detectionType, VStr(<<"c","o","u","n","t">>))
      outputType0 == Default(a.outputType, VStr(<<"p","o","l","y","g","o","n">>))
      trainingSteps == Default(a.trainingSteps, VNum(500))
  IN
  IF detectionType0.t # "string" \/ outputType0.t # "string"
    THEN Reject(NoLocals, TypeError(<<"Cannot read property 'toLowerCase'">>), FALSE)
  ELSE LET detectionType == toLowerCase(detectionType0.v)
           outputType == toLowerCase(outputType0.v)
  IN
  IF detectionType \notin detectionTypes
    THEN Reject(NoLocals, ValidationError(<<"Invalid detector type">>), FALSE)
  ELSE IF outputType \notin outputTypes
    THEN Reject(NoLocals, ValidationError(<<"Invalid output type">>), FALSE)
  ELSE IF ToNumber(trainingSteps) < range[1] \/ ToNumber(trainingSteps) > range[2]
    THEN Reject(NoLocals, ValidationError(<<"Training steps value is outside range">>), FALSE)
  ELSE Send("create", NoLocals,
         _request(c, <<"detectors">>, "POST", JsonHeaders,
           JsonBody(("name" :> name) @@
                    ("configuration" :>
                       (("detection_type" :> VStr(detectionType)) @@
                        ("output_type" :> VStr(outputType)) @@
                        ("training_steps" :> trainingSteps)))),
           TRUE),
         FALSE)

\* after the POST: checkResponse, response.json(), return data['id']
createDetectorResponse(loc, response) ==
  IF checkResponse(response) # NoError THEN Reject(loc, checkResponse(response), FALSE)
  ELSE IF ~response.body.json THEN Reject(loc, JsonError, TRUE)
  ELSE Resolve(loc, JsVal(Field(response.body.data, "id")), TRUE)

\* ------------------------------------------------------------ editDetector
\* bodyData after the four `if` blocks, or the error one of them throws.
\* conf is the configuration object, present only when name was truthy.
editBody(a) ==
  LET hasConf == Truthy(a.name)
      b0 == IF hasConf THEN ("name" :> a.name) ELSE <<>>
      noConf == TypeError(<<"Cannot set property of undefined">>)
      \* each step maps [err, conf] to [err, conf]
      s1(st) ==
        IF st.err # NoError \/ ~Truthy(a.detectionType) THEN st
        ELSE IF toLowerCase(a.detectionType.v) \notin detectionTypes
          THEN [st EXCEPT !.err = ValidationError(<<"Invalid detector type">>)]
        ELSE IF ~hasConf THEN [st EXCEPT !.err = noConf]
        ELSE [st EXCEPT !.conf = ("detection_type" :> VStr(toLowerCase(a.detectionType.v))) @@ @]
      s2(st) ==
        IF st.err # NoError \/ ~Truthy(a.outputType) THEN st
        ELSE IF toLowerCase(a.outputType.v) \notin outputTypes
          THEN [st EXCEPT !.err = ValidationError(<<"Invalid output type">>)]
        ELSE IF ~hasConf THEN [st EXCEPT !.err = noConf]
        ELSE [st EXCEPT !.conf = ("output_type" :> VStr(toLowerCase(a.outputType.v))) @@ @]
      s3(st) ==
        IF st.err # NoError \/ ~Truthy(a.trainingSteps) THEN st
        ELSE IF a.trainingSteps.v < range[1] \/ a.trainingSteps.v > range[2]
          THEN [st EXCEPT !.err = ValidationError(<<"Training steps value is outside range">>)]
        ELSE IF ~hasConf THEN [st EXCEPT !.err = noConf]
        ELSE [st EXCEPT !.conf = ("training_steps" :> a.trainingSteps) @@ @]
      final == s3(s2(s1([err |-> NoError, conf |-> <<>>])))
  IN [err |-> final.err,
      body |-> IF hasConf THEN b0 @@ ("configuration" :> final.conf) ELSE b0]

editDetector(c, a) ==
  LET bodyData == editBody(a) IN
  IF bodyData.err # NoError THEN Reject(NoLocals, bodyData.err, FALSE)
  ELSE Send("edit", NoLocals,
         _request(c, <<"detectors", a.detectorId>>, "PUT", JsonHeaders,
                  JsonBody(bodyData.body), TRUE),
         FALSE)

\* after a request whose body is not read: checkResponse, return true
checkedTrue(loc, response) ==
  IF checkResponse(response) # NoError THEN Reject(loc, checkResponse(response), FALSE)
  ELSE Resolve(loc, VTrue, FALSE)

\* ------------------------------------------------------------ uploadRaster
\* variant: 'name' is sent whether or not a rasterName was supplied
uploadRaster_alwaysName(c, a) ==
  LET body == ("name" :> a.rasterName) @@
              (IF a.folderId # "" THEN ("folder_id" :> a.folderId) ELSE <<>>)
  IN Send("initiate", NoLocals,
          _request(c, <<"rasters", "upload", "file">>, "POST", JsonHeaders,
                   JsonBody(body), TRUE),
          FALSE)

uploadRaster(c, a) ==
  LET body == (IF a.rasterName # VStr(<<>>) THEN ("name" :> a.rasterName) ELSE <<>>) @@
              (IF a.folderId # "" THEN ("folder_id" :> a.folderId) ELSE <<>>)
  IN Send("initiate", NoLocals,
          _request(c, <<"rasters", "upload", "file">>, "POST", JsonHeaders,
                   JsonBody(body), TRUE),
          FALSE)

\* the PUT of the payload to the pre-signed URL; fetch rejects a URL that is
\* not absolute (an upload_url the response did not carry)
putToStorage(c, loc, headers, body, parsed) ==
  IF loc.uploadUrl = Undefined
    THEN Reject(loc, TypeError(<<"Only absolute URLs are supported">>), parsed)
    ELSE Send("put", loc, _request(c, <<loc.uploadUrl>>, "PUT", headers, body, FALSE), parsed)

\* variant: the PUT is not awaited, the commit POST leaves together with it
uploadRasterInitiated_putNotAwaited(c, a, loc, response) ==
  IF ~response.body.json THEN Reject(loc, JsonError, TRUE)
  ELSE LET l == [loc EXCEPT !.uploadUrl = Field(response.body.data, "upload_url"),
                            !.resourceId = Field(response.body.data, "raster_id")]
       IN [Send("commit", l,
                _request(c, <<l.uploadUrl>>, "PUT", NoHeaders, StreamBody(a.fileName), FALSE),
                TRUE)
           EXCEPT !.send = @ \o <<_request(c, <<"rasters", l.resourceId, "commit">>,
                                          "POST", NoHeaders, NoBody, TRUE)>>]

\* uploadRaster after the initiate POST: the body is parsed unchecked
uploadRasterInitiated(c, a, loc, response) ==
  IF ~response.body.json THEN Reject(loc, JsonError, TRUE)
  ELSE putToStorage(c,
         [loc EXCEPT !.uploadUrl = Field(response.body.data, "upload_url"),
                     !.resourceId = Field(response.body.data, "raster_id")],
         NoHeaders, StreamBody(a.fileName), TRUE)

\* variant: the commit path is built from the wrong local
uploadRasterCommit_urlForId(c, a, loc, response) ==
  IF checkResponse(response) # NoError THEN Reject(loc, checkResponse(response), FALSE)
  ELSE Send("commit", loc,
            _request(c, <<"rasters", loc.uploadUrl, "commit">>, "POST", NoHeaders, NoBody, TRUE),
            FALSE)

uploadRasterCommit(c, a, loc, response) ==
  IF checkResponse(response) # NoError THEN Reject(loc, checkResponse(response), FALSE)
  ELSE Send("commit", loc,
            _request(c, <<"rasters", loc.resourceId, "commit">>, "POST", NoHeaders, NoBody, TRUE),
            FALSE)

\* ------------------------------------------ setRasterDetectionAreaFromFile
setRasterDetectionAreaFromFile(c, a) ==
  Send("initiate", NoLocals,
       _request(c, <<"rasters", a.rasterId, "detection_areas", "upload", "file">>,
                "POST", NoHeaders, NoBody, TRUE),
       FALSE)

\* after an initiate POST that is checked: upload_url and upload_id are read
uploadInitiated(c, loc, response, headers, body) ==
  IF checkResponse(response) # NoError THEN Reject(loc, checkResponse(response), FALSE)
  ELSE IF ~response.body.json THEN Reject(loc, JsonError, TRUE)
  ELSE putToStorage(c,
         [loc EXCEPT !.uploadUrl = Field(response.body.data, "upload_url"),
                     !.resourceId = Field(response.body.data, "upload_id")],
         headers, body, TRUE)

\* variant: the PUT response is not checked
detectionAreaCommit_unchecked(c, a, loc, response) ==
  Send("commit", loc,
       _request(c, <<"rasters", a.rasterId, "detection_areas", "upload",
                     loc.resourceId, "commit">>, "POST", NoHeaders, NoBody, TRUE),
       FALSE)

detectionAreaCommit(c, a, loc, response) ==
  IF checkResponse(response) # NoError THEN Reject(loc, checkResponse(response), FALSE)
  ELSE Send("commit", loc,
            _request(c, <<"rasters", a.rasterId, "detection_areas", "upload",
                          loc.resourceId, "commit">>, "POST", NoHeaders, NoBody, TRUE),
            FALSE)

\* ---------------------------------------------------------- setAnnotations
annotationTypes == {"outline", "training_area", "testing_area", "validation_area"}

annotationPath(a) ==
  <<"detectors", a.detectorId, "training_rasters", a.rasterId,
    toLowerCase(a.annotationType), "upload", "bulk">>

\* variant: the annotation type is not validated
setAnnotations_unvalidated(c, a) ==
  Send("initiate", NoLocals,
       _request(c, annotationPath(a), "POST", NoHeaders, NoBody, TRUE), FALSE)

setAnnotations(c, a) ==
  IF toLowerCase(a.annotationType) \notin annotationTypes
    THEN Reject(NoLocals, ValidationError(<<"Invalid annotation type">>), FALSE)
    ELSE Send("initiate", NoLocals,
              _request(c, annotationPath(a), "POST", NoHeaders, NoBody, TRUE), FALSE)

annotationsCommit(c, a, loc, response) ==
  IF checkResponse(response) # NoError THEN Reject(loc, checkResponse(response), FALSE)
  ELSE Send("commit", loc,
            _request(c, annotationPath(a) \o <<loc.resourceId, "commit">>,
                     "POST", NoHeaders, NoBody, TRUE),
            FALSE)

\* ------------------------------------------- trainDetector and runDetector
trainDetector(c, a) ==
  Send("commit", NoLocals,
       _request(c, <<"detectors", a.detectorId, "train">>, "POST", NoHeaders, NoBody, TRUE),
       FALSE)

runDetector(c, a) ==
  Send("commit", NoLocals,
       _request(c, <<"detectors", a.detectorId, "run">>, "POST", JsonHeaders,
                JsonBody("raster_id" :> a.rasterId), TRUE),
       FALSE)

\* ------------------------------------------------- single-request methods
getRasterById(c, a) ==
  Send("get", NoLocals,
       _request(c, <<"rasters", a.rasterId>>, "GET", NoHeaders, NoBody, TRUE), FALSE)

getDetectorById(c, a) ==
  Send("get", NoLocals,
       _request(c, <<"detectors", a.detectorId>>, "GET", NoHeaders, NoBody, TRUE), FALSE)

\* after a GET of one resource: checkResponse, response.json(), return data
getResponse(loc, response) ==
  IF checkResponse(response) # NoError THEN Reject(loc, checkResponse(response), FALSE)
  ELSE IF ~response.body.json THEN Reject(loc, JsonError, TRUE)
  ELSE Resolve(loc, VObj(response.body.data), TRUE)

deleteRasterById(c, a) ==
  Send("checked", NoLocals,
       _request(c, <<"rasters", a.rasterId>>, "DELETE", NoHeaders, NoBody, TRUE), FALSE)

addRasterToDetector(c, a) ==
  Send("checked", NoLocals,
       _request(c, <<"detectors", a.detectorId, "training_rasters">>, "POST", JsonHeaders,
                JsonBody("raster_id" :> a.rasterId), TRUE),
       FALSE)

\* ----------------------------------------------- listRasters, listDetectors
pageRequest(c, collection, loc) ==
  Send("page", loc,
       _request(c, <<collection, "?page_number=" \o ToString(loc.pageNum)>>,
                "GET", NoHeaders, NoBody, TRUE),
       FALSE)

listRasters(c, a) == pageRequest(c, "rasters", [NoLocals EXCEPT !.pageNum = 1])
listDetectors(c, a) == pageRequest(c, "detectors", [NoLocals EXCEPT !.pageNum = 1])

\* variant: the page's results replace the list instead of extending it
Concat_replaces(list, data, key) ==
  IF key \in DOMAIN data THEN data[key] ELSE <<Undefined>>

\* list.concat(x): an array is spliced in, anything else is appended as one element
Concat(list, data, key) ==
  IF key \in DOMAIN data THEN list \o data[key] ELSE Append(list, Undefined)

\* variant: a failed page ends the loop and the pages fetched so far are returned
pageResponse_returnsPartial(c, collection, loc, response) ==
  IF checkResponse(response) # NoError THEN Resolve(loc, VList(loc.list), FALSE)
  ELSE IF ~response.body.json THEN Reject(loc, JsonError, TRUE)
  ELSE LET data == response.body.data
           list == Concat(loc.list, data, "results")
           pageNum == IF Field(data, "next") \notin {Undefined, "null", ""}
                        THEN loc.pageNum + 1 ELSE 0
           loc2 == [loc EXCEPT !.list = list, !.pageNum = pageNum]
       IN IF pageNum > 0 THEN [pageRequest(c, collection, loc2) EXCEPT !.parsed = TRUE]
          ELSE Resolve(loc2, VList(list), TRUE)

pageResponse(c, collection, loc, response) ==
  IF checkResponse(response) # NoError THEN Reject(loc, checkResponse(response), FALSE)
  ELSE IF ~response.body.json THEN Reject(loc, JsonError, TRUE)
  ELSE LET data == response.body.data
           list == Concat(loc.list, data, "results")
           pageNum == IF Field(data, "next") \notin {Undefined, "null", ""}
                        THEN loc.pageNum + 1 ELSE 0
           loc2 == [loc EXCEPT !.list = list, !.pageNum = pageNum]
       IN IF pageNum > 0 THEN [pageRequest(c, collection, loc2) EXCEPT !.parsed = TRUE]
          ELSE Resolve(loc2, VList(list), TRUE)

\* ---------------------------------------------------- downloadResultToFile
downloadResultToFile(c, a) ==
  Send("status", NoLocals,
       _request(c, <<"operations", a.operationId>>, "GET", NoHeaders, NoBody, TRUE), FALSE)

\* variant: the result is fetched whatever the operation's status
downloadStatus_anyStatus(c, a, loc, response) ==
  IF checkResponse(response) # NoError THEN Reject(loc, checkResponse(response), FALSE)
  ELSE IF ~response.body.json THEN Reject(loc, JsonError, TRUE)
  ELSE LET data == response.body.data IN
    IF "results" \notin DOMAIN data
      THEN Reject(loc, TypeError(<<"Cannot read property 'url' of undefined">>), TRUE)
    ELSE Send("download", loc,
              _request(c, <<data["results"]["url"]>>, "GET", NoHeaders, NoBody, FALSE),
              TRUE)

downloadStatus(c, a, loc, response) ==
  IF checkResponse(response) # NoError THEN Reject(loc, checkResponse(response), FALSE)
  ELSE IF ~response.body.json THEN Reject(loc, JsonError, TRUE)
  ELSE LET data == response.body.data IN
    IF Field(data, "status") # "success"
      THEN Reject(loc, APIError(<<"Operation not finished">>, ""), TRUE)
    ELSE IF "results" \notin DOMAIN data
      THEN Reject(loc, TypeError(<<"Cannot read property 'url' of undefined">>), TRUE)
    ELSE IF Field(data["results"], "url") = Undefined
      THEN Reject(loc, TypeError(<<"Only absolute URLs are supported">>), TRUE)
    ELSE Send("download", loc,
              _request(c, <<data["results"]["url"]>>, "GET", NoHeaders, NoBody, FALSE),
              TRUE)

\* checkResponse, then streamPipeline(response.body, createWriteStream(fileName))
downloadBody(a, loc, response) ==
  IF checkResponse(response) # NoError THEN Reject(loc, checkResponse(response), FALSE)
  ELSE [Resolve(loc, VUndef, FALSE) EXCEPT !.wrote = <<a.fileName>>]

\* ------------------------------------------------------------ resumption
PollingMethods ==
  {"uploadRaster", "setRasterDetectionAreaFromFile", "setAnnotations",
   "trainDetector", "runDetector"}

\* The continuation of method op suspended at pc, resumed with the settled
\* fetch.  No method catches: a rejected fetch rejects the call.
Resume(c, op, a, pc, loc, response) ==
  IF response.net = "error" THEN Reject(loc, FetchError, FALSE)
  ELSE CASE pc = "wait_poll" -> waitPollResponse(op, a, loc, response)
    [] pc = "commit" -> startWait(loc, response)
    [] pc = "initiate" /\ op = "uploadRaster" -> uploadRasterInitiated(c, a, loc, response)
    [] pc = "initiate" /\ op = "setRasterDetectionAreaFromFile" ->
         uploadInitiated(c, loc, response, NoHeaders, StreamBody(a.fileName))
    [] pc = "initiate" /\ op = "setAnnotations" ->
         uploadInitiated(c, loc, response, JsonHeaders, JsonBody(a.annotationsGeoJSon))
    [] pc = "put" /\ op = "uploadRaster" -> uploadRasterCommit(c, a, loc, response)
    [] pc = "put" /\ op = "setRasterDetectionAreaFromFile" ->
         detectionAreaCommit(c, a, loc, response)
    [] pc = "put" /\ op = "setAnnotations" -> annotationsCommit(c, a, loc, response)
    [] pc = "create" -> createDetectorResponse(loc, response)
    [] pc \in {"edit", "checked"} -> checkedTrue(loc, response)
    [] pc = "get" -> getResponse(loc, response)
    [] pc = "page" ->
         pageResponse(c, IF op = "listRasters" THEN "rasters" ELSE "detectors", loc, response)
    [] pc = "status" -> downloadStatus(c, a, loc, response)
    [] pc = "download" -> downloadBody(a, loc, response)

\* ------------------------------------ dist/Client.js: the deadline loop
\* The deadline-bounded poll loop of the built client (dist/Client.js,
\* second build): uploadRaster polls the raster until it is 'ready' or the
\* deadline has passed.  Date.now() and this._timeout are milliseconds; the
\* clock `now` counts tenths of a second.
MsPerTenth == 100

\* timeoutSeconds of the client the deadline loop runs on
DistTimeoutSeconds == 1

dist_uploadRaster(c, a) ==
  Send("initiate", NoLocals,
       _request(c, <<"rasters", "upload", "file">>, "POST", JsonHeaders,
                JsonBody("name" :> a.rasterName), TRUE),
       FALSE)

\* after the commit POST: checkResponse, json, pollInterval, the deadline,
\* and the first sleep of the do-while loop
dist_uploadRasterCommitted(c, loc, response, time) ==
  IF checkResponse(response) # NoError THEN Reject(loc, checkResponse(response), FALSE)
  ELSE IF ~response.body.json THEN Reject(loc, JsonError, TRUE)
  ELSE LET pollInterval == response.body.data["poll_interval"]
       IN Sleep("raster_sleep",
                [loc EXCEPT !.pollInterval = pollInterval,
                            !.timeout = time + (c._timeout \div MsPerTenth)],
                pollInterval * TenthsPerSecond, TRUE)

\* after the sleep: response = await this._request(`/rasters/${rasterId}/`)
dist_rasterPollRequest(c, loc) ==
  Send("raster_poll", loc,
       _request(c, <<"rasters", loc.resourceId>>, "GET", NoHeaders, NoBody, TRUE), FALSE)

\* variant: whatever ended the loop, the error says the request timed out
dist_rasterPollResponse_alwaysTimedOut(loc, response, time) ==
  LET l == [loc EXCEPT !.observedAt = time] IN
  IF time > loc.timeout \/ ~ok(response)
    THEN Reject(l, APIError(<<"Request timed-out">>, ""), FALSE)
  ELSE IF ~response.body.json THEN Reject(l, JsonError, TRUE)
  ELSE IF Field(response.body.data, "status") = "ready"
    THEN Resolve(l, JsVal(l.resourceId), TRUE)
    ELSE Sleep("raster_sleep", l, l.pollInterval * TenthsPerSecond, TRUE)

\* the rest of the loop body and the statements after the loop
dist_rasterPollResponse(loc, response, time) ==
  LET l == [loc EXCEPT !.observedAt = time] IN
  IF time > loc.timeout \/ ~ok(response)
    THEN Reject(l, APIError(IF ok(response) THEN <<"Request timed-out">>
                            ELSE <<"Error uploading raster">>, ""), FALSE)
  ELSE IF ~response.body.json THEN Reject(l, JsonError, TRUE)
  ELSE IF Field(response.body.data, "status") = "ready"
    THEN Resolve(l, JsVal(l.resourceId), TRUE)
    ELSE Sleep("raster_sleep", l, l.pollInterval * TenthsPerSecond, TRUE)

\* ------------------------------------- dist/Client.js: the first build
\* The first of the two builds in dist/Client.js validates ids and wraps the
\* body of every method in try { ... } catch (error) { throw new APIError(error) }.
\* the characters of the ids the callers pass
IdText ==
  ("r-1" :> <<"r","-","1">>) @@
  ("d-1" :> <<"d","-","1">>) @@
  ("123e4567-e89b-12d3-a456-426655440000" :>
     <<"1","2","3","e","4","5","6","7","-","e","8","9","b","-","1","2","d","3","-",
       "a","4","5","6","-","4","2","6","6","5","5","4","4","0","0","0","0">>) @@
  ("ce2eb567-d304-411d-b430-5d76a0d597ac" :>
     <<"c","e","2","e","b","5","6","7","-","d","3","0","4","-","4","1","1","d","-",
       "b","4","3","0","-","5","d","7","6","a","0","d","5","9","7","a","c">>)

HexDigits ==
  {"0","1","2","3","4","5","6","7","8","9","a","b","c","d","e","f",
   "A","B","C","D","E","F"}

\* /^[0-9a-f]{8}-[0-9a-f]{4}-[0-5][0-9a-f]{3}-[089ab][0-9a-f]{3}-[0-9a-f]{12}$/i
uuidValidator(uuid) ==
  /\ Len(uuid) = 36
  /\ \A i \in {9, 14, 19, 24} : uuid[i] = "-"
  /\ \A i \in (1..36) \ {9, 14, 19, 24} : uuid[i] \in HexDigits
  /\ uuid[15] \in {"0","1","2","3","4","5"}
  /\ uuid[20] \in {"0","8","9","a","b","A","B"}

\* class ValidationError of the first build: name 'ValidationError'
v1_ValidationError(msg) == [name |-> "ValidationError", msg |-> msg, body |-> ""]

\* new APIError(error): the message is the caught error converted to a string
v1_APIError(error) == APIError(<<error.name \o ":">> \o error.msg, "")

\* catch (error) { throw new APIError(error) }
v1_catch(eff) ==
  IF eff.out.state = "rejected" THEN [eff EXCEPT !.out.error = v1_APIError(@)] ELSE eff

v1_getRasterById(c, a) ==
  IF ~uuidValidator(IdText[a.rasterId])
    THEN Reject(NoLocals, v1_ValidationError(<<"Invalid UUID string">>), FALSE)
    ELSE Send("v1_get", NoLocals,
              _request(c, <<"rasters", a.rasterId>>, "GET", NoHeaders, NoBody, TRUE), FALSE)

v1_runDetectorOnRaster(c, a) ==
  IF ~uuidValidator(IdText[a.detectorId])
    THEN Reject(NoLocals, v1_ValidationError(<<"Invalid UUID string for a custom detector">>),
                FALSE)
  ELSE IF ~uuidValidator(IdText[a.rasterId])
    THEN Reject(NoLocals, v1_ValidationError(<<"Invalid UUID string for a raster">>), FALSE)
  ELSE Send("v1_run", NoLocals,
            _request(c, <<"detectors", a.detectorId, "run">>, "POST", JsonHeaders,
                     JsonBody("raster_id" :> a.rasterId), TRUE),
            FALSE)

\* the try block of a method of the first build from the await at `at` on
v1_try(c, at, loc, response, time) ==
  IF response.net = "error" THEN Reject(loc, FetchError, FALSE)
  ELSE CASE at = "v1_get" ->
         IF ~ok(response)
           THEN Reject(loc, APIError(<<"Error getting raster metadata with status",
                                       ToString(response.status)>>, ""), FALSE)
         ELSE IF ~response.body.json THEN Reject(loc, JsonError, TRUE)
         ELSE Resolve(loc, VObj(response.body.data), TRUE)
    [] at = "v1_run" ->
         IF ~ok(response)
           THEN Reject(loc, APIError(<<"Error launching detection with status",
                                       ToString(response.status)>>, ""), FALSE)
         ELSE IF ~response.body.json THEN Reject(loc, JsonError, TRUE)
         ELSE Sleep("v1_result_sleep",
                    [loc EXCEPT !.pollInterval = response.body.data["poll_interval"],
                                !.timeout = time + (c._timeout \div MsPerTenth),
                                !.resourceId = Field(response.body.data, "result_id")],
                    response.body.data["poll_interval"] * TenthsPerSecond, TRUE)
    [] at = "v1_result_poll" ->
         LET l == [loc EXCEPT !.observedAt = time] IN
         IF time > loc.timeout \/ ~ok(response)
           THEN Reject(l, APIError(IF ok(response) THEN <<"Request timed-out">>
                                   ELSE <<"Error detecting on raster">>, ""), FALSE)
         ELSE IF ~response.body.json THEN Reject(l, JsonError, TRUE)
         ELSE IF Field(response.body.data, "ready") = "true"
           THEN Resolve(l, JsVal(Field(response.body.data, "result_url")), TRUE)
           ELSE Sleep("v1_result_sleep", l, l.pollInterval * TenthsPerSecond, TRUE)

v1_resultPollRequest(c, loc) ==
  Send("v1_result_poll", loc,
       _request(c, <<"results", loc.resourceId>>, "GET", NoHeaders, NoBody, TRUE), FALSE)

\* ---- dist/Client.js: runDetector
dist_runDetector(c, a) ==
  Send("run", NoLocals,
       _request(c, <<"detectors", a.detectorId, "run">>, "POST", JsonHeaders,
                JsonBody("raster_id" :> a.rasterId), TRUE),
       FALSE)

\* after the run POST: checkResponse, json, pollInterval, the deadline,
\* resultId, and the first sleep of the do-while loop
dist_runDetectorStarted(c, loc, response, time) ==
  IF checkResponse(response) # NoError THEN Reject(loc, checkResponse(response), FALSE)
  ELSE IF ~response.body.json THEN Reject(loc, JsonError, TRUE)
  ELSE LET pollInterval == response.body.data["poll_interval"]
       IN Sleep("result_sleep",
                [loc EXCEPT !.pollInterval = pollInterval,
                            !.timeout = time + (c._timeout \div MsPerTenth),
                            !.resourceId = Field(response.body.data, "result_id")],
                pollInterval * TenthsPerSecond, TRUE)

dist_resultPollRequest(c, loc) ==
  Send("result_poll", loc,
       _request(c, <<"results", loc.resourceId>>, "GET", NoHeaders, NoBody, TRUE), FALSE)

\* variant: the answer is parsed before the deadline is looked at, and a
\* result that is ready is returned however late it was seen
dist_resultPollResponse_readyBeatsDeadline(loc, response, time) ==
  LET l == [loc EXCEPT !.observedAt = time] IN
  IF ~ok(response)
    THEN Reject(l, APIError(<<"Error detecting on raster">>, ""), FALSE)
  ELSE IF ~response.body.json THEN Reject(l, JsonError, TRUE)
  ELSE IF Field(response.body.data, "ready") = "true"
    THEN Resolve(l, JsVal(l.resourceId), TRUE)
  ELSE IF time > loc.timeout
    THEN Reject(l, APIError(<<"Request timed-out">>, ""), TRUE)
    ELSE Sleep("result_sleep", l, l.pollInterval * TenthsPerSecond, TRUE)

\* the rest of the loop body and the statements after the loop; data.ready
\* is a JSON boolean, written "true" / "false"
dist_resultPollResponse(loc, response, time) ==
  LET l == [loc EXCEPT !.observedAt = time] IN
  IF time > loc.timeout \/ ~ok(response)
    THEN Reject(l, APIError(IF ok(response) THEN <<"Request timed-out">>
                            ELSE <<"Error detecting on raster">>, ""), FALSE)
  ELSE IF ~response.body.json THEN Reject(l, JsonError, TRUE)
  ELSE IF Field(response.body.data, "ready") = "true"
    THEN Resolve(l, JsVal(l.resourceId), TRUE)
    ELSE Sleep("result_sleep", l, l.pollInterval * TenthsPerSecond, TRUE)

\* ---- dist/Client.js: setRasterDetectionAreaFromFile
\* after the commit POST: checkResponse, json, pollInterval, the deadline,
\* and the first sleep of the do-while loop
dist_detectionAreaCommitted(c, loc, response, time) ==
  IF checkResponse(response) # NoError THEN Reject(loc, checkResponse(response), FALSE)
  ELSE IF ~response.body.json THEN Reject(loc, JsonError, TRUE)
  ELSE LET pollInterval == response.body.data["poll_interval"]
       IN Sleep("area_sleep",
                [loc EXCEPT !.pollInterval = pollInterval,
                            !.timeout = time + (c._timeout \div MsPerTenth)],
                pollInterval * TenthsPerSecond, TRUE)

dist_areaPollRequest(c, a, loc) ==
  Send("area_poll", loc,
       _request(c, <<"rasters", a.rasterId, "detection_areas", "upload", loc.resourceId>>,
                "GET", NoHeaders, NoBody, TRUE),
       FALSE)

\* variant: the loop does not look at the clock
dist_areaPollResponse_noDeadline(loc, response, time) ==
  LET l == [loc EXCEPT !.observedAt = time] IN
  IF ~ok(response)
    THEN Reject(l, APIError(<<"Error uploading detection area">>, response.body.text), FALSE)
  ELSE IF ~response.body.json THEN Reject(l, JsonError, TRUE)
  ELSE IF Field(response.body.data, "status") = "failed"
    THEN Reject(l, TypeError(<<"body used already">>), TRUE)
  ELSE IF Field(response.body.data, "status") = "ready"
    THEN Resolve(l, VTrue, TRUE)
    ELSE Sleep("area_sleep", l, l.pollInterval * TenthsPerSecond, TRUE)

\* the rest of the loop body and the statements after the loop.  After the
\* loop the body is read with response.text(): on a response whose body
\* response.json() has already consumed, node-fetch rejects with a TypeError.
dist_areaPollResponse(loc, response, time) ==
  LET l == [loc EXCEPT !.observedAt = time] IN
  IF time > loc.timeout \/ ~ok(response)
    THEN Reject(l, APIError(<<"Error uploading detection area">>, response.body.text), FALSE)
  ELSE IF ~response.body.json THEN Reject(l, JsonError, TRUE)
  ELSE IF Field(response.body.data, "status") = "failed"
    THEN Reject(l, TypeError(<<"body used already">>), TRUE)
  ELSE IF Field(response.body.data, "status") = "ready"
    THEN Resolve(l, VTrue, TRUE)
    ELSE Sleep("area_sleep", l, l.pollInterval * TenthsPerSecond, TRUE)

\* ---- dist/Client.js: listRasters
\* the loop body of the built listRasters: the page is read from data['result']
dist_pageResponse(c, loc, response) ==
  IF checkResponse(response) # NoError THEN Reject(loc, checkResponse(response), FALSE)
  ELSE IF ~response.body.json THEN Reject(loc, JsonError, TRUE)
  ELSE LET data == response.body.data
           list == Concat(loc.list, data, "result")
           pageNum == IF Field(data, "next") \notin {Undefined, "null", ""}
                        THEN loc.pageNum + 1 ELSE 0
           loc2 == [loc EXCEPT !.list = list, !.pageNum = pageNum]
       IN IF pageNum > 0 THEN [pageRequest(c, "rasters", loc2) EXCEPT !.parsed = TRUE]
          ELSE Resolve(loc2, VList(list), TRUE)

\* ---- dist/Client.js: methods that end without a return statement
\* after the one request of addRasterToDetector: checkResponse, then the end
\* of the function body
dist_checked(loc, response) ==
  IF checkResponse(response) # NoError THEN Reject(loc, checkResponse(response), FALSE)
  ELSE Resolve(loc, VUndef, FALSE)

\* the built client's methods, run up to the first await; those whose first
\* statements are the source's are the source's operators
dist_Start(c, method, a) ==
  CASE method = "dist_uploadRaster" -> dist_uploadRaster(c, a)
    [] method = "dist_runDetector" -> dist_runDetector(c, a)
    [] method = "dist_setRasterDetectionAreaFromFile" -> setRasterDetectionAreaFromFile(c, a)
    [] method = "dist_addRasterToDetector" -> addRasterToDetector(c, a)
    [] method = "dist_setAnnotations" -> setAnnotations(c, a)
    [] method = "dist_trainDetector" -> trainDetector(c, a)
    [] method = "dist_listRasters" -> listRasters(c, a)
    [] method = "v1_getRasterById" -> v1_getRasterById(c, a)
    [] method = "v1_runDetectorOnRaster" -> v1_runDetectorOnRaster(c, a)

\* the continuation of the built client's method suspended at `at`
dist_Resume(c, method, a, at, loc, response, time) ==
  IF at \in {"v1_get", "v1_run", "v1_result_poll"}
    THEN v1_catch(v1_try(c, at, loc, response, time))
  ELSE IF response.net = "error" THEN Reject(loc, FetchError, FALSE)
  ELSE CASE at = "raster_poll" -> dist_rasterPollResponse(loc, response, time)
    [] at = "result_poll" -> dist_resultPollResponse(loc, response, time)
    [] at = "area_poll" -> dist_areaPollResponse(loc, response, time)
    [] at = "page" -> dist_pageResponse(c, loc, response)
    [] at = "run" -> dist_runDetectorStarted(c, loc, response, time)
    [] at = "checked" -> dist_checked(loc, response)
    [] at = "wait_poll" -> waitPollResponse(method, a, loc, response)
    [] at = "initiate" /\ method = "dist_uploadRaster" ->
         uploadRasterInitiated(c, a, loc, response)
    [] at = "initiate" /\ method = "dist_setRasterDetectionAreaFromFile" ->
         uploadInitiated(c, loc, response, NoHeaders, StreamBody(a.fileName))
    [] at = "initiate" /\ method = "dist_setAnnotations" ->
         uploadInitiated(c, loc, response, JsonHeaders, JsonBody(a.annotationsGeoJSon))
    [] at = "put" /\ method = "dist_uploadRaster" -> uploadRasterCommit(c, a, loc, response)
    [] at = "put" /\ method = "dist_setRasterDetectionAreaFromFile" ->
         detectionAreaCommit(c, a, loc, response)
    [] at = "put" /\ method = "dist_setAnnotations" -> annotationsCommit(c, a, loc, response)
    [] at = "commit" /\ method = "dist_uploadRaster" ->
         dist_uploadRasterCommitted(c, loc, response, time)
    [] at = "commit" /\ method = "dist_setRasterDetectionAreaFromFile" ->
         dist_detectionAreaCommitted(c, loc, response, time)
    [] at = "commit" -> startWait(loc, response)

\* the request a method issues when the sleep it awaits at `at` is over
dist_afterSleep(c, a, at, loc) ==
  CASE at = "raster_sleep" -> dist_rasterPollRequest(c, loc)
    [] at = "result_sleep" -> dist_resultPollRequest(c, loc)
    [] at = "area_sleep" -> dist_areaPollRequest(c, a, loc)
    [] at = "v1_result_sleep" -> v1_resultPollRequest(c, loc)
    [] at \in {"wait_sleep0", "wait_sleep"} -> waitPollRequest(c, loc)

\* ------------------------------------------------- the server and network
EmptyBody == [json |-> FALSE, text |-> "", data |-> <<>>]
HtmlBody == [json |-> FALSE, text |-> "<html>", data |-> <<>>]
ErrorJson == [json |-> TRUE, text |-> "{detail}", data |-> ("detail" :> "error")]
Json(d) == [json |-> TRUE, text |-> "{json}", data |-> d]
Http(status, body) == [net |-> "ok", status |-> status, body |-> body]
NetworkError == [net |-> "error", status |-> 0, body |-> EmptyBody]

\* {raster_id, upload_url} and {upload_id, upload_url} of an initiate answer
RasterUploads ==
  {("raster_id" :> "R1") @@ ("upload_url" :> "https://storage/1"),
   ("raster_id" :> "R2") @@ ("upload_url" :> "https://storage/2")}
FileUploads ==
  {("upload_id" :> "up1") @@ ("upload_url" :> "https://storage/1"),
   ("upload_id" :> "up2") @@ ("upload_url" :> "https://storage/2")}
\* {operation_id, poll_interval} of a commit, train or run answer
Operations ==
  {("operation_id" :> "O1") @@ ("poll_interval" :> 1),
   ("operation_id" :> "O2") @@ ("poll_interval" :> 2)}
ResultUrls == {"https://results/1"}
\* {status} of an operation; the last one carries no status at all
OperationStatuses ==
  {("status" :> "processing"), ("status" :> "ready"),
   ("status" :> "success"), ("status" :> "failed"), <<>>}
Pages == {<<"a">>, <<"a", "b">>}

Failures == {Http(500, ErrorJson), Http(404, HtmlBody), NetworkError}

\* what may come back for the request a method awaits at pc
Responses(op, pc, loc) ==
  Failures \cup
  CASE pc = "initiate" /\ op = "uploadRaster" ->
         {Http(201, Json(d)) : d \in RasterUploads}
    [] pc = "initiate" -> {Http(201, Json(d)) : d \in FileUploads}
    [] pc = "commit" -> {Http(201, Json(d)) : d \in Operations}
    [] pc = "wait_poll" ->
         {Http(200, Json(d)) : d \in OperationStatuses} \cup {Http(200, HtmlBody)}
    [] pc = "create" -> {Http(201, Json("id" :> "D9")), Http(200, HtmlBody)}
    [] pc = "get" -> {Http(200, Json("id" :> "X1"))}
    [] pc = "page" ->
         {Http(200, Json(("results" :> rs) @@ ("next" :> n))) :
            rs \in Pages,
            n \in IF loc.pageNum < MaxPages THEN {"null", "https://next"} ELSE {"null"}}
    [] pc = "status" ->
         {Http(200, Json(("status" :> st) @@ ("results" :> ("url" :> u)))) :
            st \in {"running", "success"}, u \in ResultUrls}
         \cup {Http(200, Json("status" :> "success"))}
    [] pc = "put" -> {Http(201, EmptyBody)}
    [] OTHER -> {Http(200, HtmlBody), Http(204, EmptyBody)}

\* ------------------------------------------------------------------ state
VARIABLES
  client,    \* the APIClient object: apiKey, baseUrl, _timeout
  op,        \* per invocation: the method called ("idle" before the call)
  args,      \* its arguments
  pc,        \* the await it is suspended at
  loc,       \* its local variables
  inflight,  \* the requests handed to fetch and not yet settled
  trace,     \* the requests, responses and sleeps so far
  lost,      \* whether the trace dropped an event
  busy,      \* whether every status poll so far was answered 2xx, non-terminal
  outcome,   \* the promise the call returned
  files,     \* the files the invocation opened for writing
  now,       \* Date.now(), in tenths of a second since the client was built
  env,       \* process.env
  built      \* how `new APIClient(...)` went: its arguments, the environment
             \* it read and the error it threw

vars == <<client, op, args, pc, loc, inflight, trace, lost, busy, outcome, files, now,
          env, built>>

Range(s) == {s[i] : i \in DOMAIN s}

ReqEvent(r) == [ev |-> "req", req |-> r]
RespEvent(at, r, parsed) == [ev |-> "resp", at |-> at, resp |-> r, parsed |-> parsed]
SleepEvent(d) == [ev |-> "sleep", dur |-> d]

\* the events of one resumption, in program order
Events(eff) ==
  [i \in DOMAIN eff.send |-> ReqEvent(eff.send[i])] \o
  [i \in DOMAIN eff.sleep |-> SleepEvent(eff.sleep[i])]

\* the answers to status polls among the events of a trace
PollAnswers(tr) == SelectSeq(tr, LAMBDA e : e.ev = "resp" /\ e.at = "wait_poll")
Overflows(tr, evs) == Len(PollAnswers(tr \o evs)) > MaxPolls

\* variant: the locals are kept in fields of the shared client object
Apply_sharedLocals(p, settled, evs, eff) ==
  /\ pc' = [pc EXCEPT ![p] = eff.pc]
  /\ loc' = [q \in DOMAIN loc |-> eff.loc]
  /\ inflight' = [inflight EXCEPT ![p] = (@ \ settled) \cup Range(eff.send)]
  /\ lost' = [lost EXCEPT ![p] = @ \/ Overflows(trace[p], evs)]
  /\ trace' = [trace EXCEPT ![p] = IF lost'[p] THEN @ ELSE @ \o evs]
  /\ outcome' = [outcome EXCEPT ![p] = eff.out]
  /\ files' = [files EXCEPT ![p] = @ \cup Range(eff.wrote)]

\* apply the effect of one resumption of invocation p
Apply(p, settled, evs, eff) ==
  /\ pc' = [pc EXCEPT ![p] = eff.pc]
  /\ loc' = [loc EXCEPT ![p] = eff.loc]
  /\ inflight' = [inflight EXCEPT ![p] = (@ \ settled) \cup Range(eff.send)]
  /\ lost' = [lost EXCEPT ![p] = @ \/ Overflows(trace[p], evs)]
  /\ trace' = [trace EXCEPT ![p] = IF lost'[p] THEN @ ELSE @ \o evs]
  /\ outcome' = [outcome EXCEPT ![p] = eff.out]
  /\ files' = [files EXCEPT ![p] = @ \cup Range(eff.wrote)]

\* what `built` records of a construction
Construction(state, e, apiKey, baseUrl, error) ==
  [state |-> state, env |-> e, apiKey |-> apiKey, baseUrl |-> baseUrl, error |-> error]

\* the client the calls run on: new APIClient('secret', 'https://api')
InitialEnv == ProcessEnv(Undefined, Undefined)
InitialClient == Construction("built", InitialEnv, "secret", "https://api", NoError)

Init ==
  /\ client = APIClient("secret", "https://api", DefaultTimeoutSeconds)
  /\ op = [p \in Procs |-> "idle"]
  /\ args = [p \in Procs |-> <<>>]
  /\ pc = [p \in Procs |-> "idle"]
  /\ loc = [p \in Procs |-> NoLocals]
  /\ inflight = [p \in Procs |-> {}]
  /\ trace = [p \in Procs |-> <<>>]
  /\ lost = [p \in Procs |-> FALSE]
  /\ busy = [p \in Procs |-> TRUE]
  /\ outcome = [p \in Procs |-> Pending]
  /\ files = [p \in Procs |-> {}]
  /\ now = 0
  /\ env = InitialEnv
  /\ built = InitialClient

\* -------------------------------------------------------------- arguments
FileNames == {"raster.tif"}
RasterNames == {VStr(<<>>), VStr(<<"s","p","a","m">>)}
FolderIds == {"", "folder"}
CallerRasterIds == {"r-1"}
CallerDetectorIds == {"d-1"}
\* a detector id in canonical UUID form, passed to runDetector
UuidDetectorIds == {"ce2eb567-d304-411d-b430-5d76a0d597ac"}
CallerOperationIds == {"o-1"}
GeoJSONs == {"geojson"}
AnnotationTypeArgs ==
  {<<"o","u","t","l","i","n","e">>, <<"O","u","t","l","i","n","e">>,
   <<"t","e","s","t","i","n","g","_","a","r","e","a">>, <<"b","o","g","u","s">>}
NameArgs == {VStr(<<"s","p","a","m">>), VStr(<<>>), VUndef}
DetectionTypeArgs ==
  {VStr(<<"c","o","u","n","t">>), VStr(<<"C","O","U","N","T">>),
   VStr(<<"S","e","g","m","e","n","t","a","t","i","o","n">>),
   VStr(<<"s","p","a","m">>), VStr(<<>>), VNull, VUndef}
OutputTypeArgs ==
  {VStr(<<"p","o","l","y","g","o","n">>), VStr(<<"B","B","o","x">>),
   VStr(<<"s","p","a","m">>), VNull, VUndef}
TrainingStepsArgs ==
  {VNum(0), VNum(499), VNum(500), VNum(40000), VNum(40001), VNull, VUndef}

\* ---------------------------------------------------------------- actions
\* a call: the method runs up to its first await
Call(p, method, a, eff) ==
  /\ pc[p] = "idle"
  /\ op' = [op EXCEPT ![p] = method]
  /\ args' = [args EXCEPT ![p] = a]
  /\ Apply(p, {}, Events(eff), eff)
  /\ UNCHANGED <<client, busy, now, env, built>>

CallUploadRaster(p) ==
  \E f \in FileNames, n \in RasterNames, d \in FolderIds :
    LET a == [fileName |-> f, rasterName |-> n, folderId |-> d]
    IN Call(p, "uploadRaster", a, uploadRaster(client, a))

CallSetRasterDetectionAreaFromFile(p) ==
  \E f \in FileNames, r \in CallerRasterIds :
    LET a == [fileName |-> f, rasterId |-> r]
    IN Call(p, "setRasterDetectionAreaFromFile", a, setRasterDetectionAreaFromFile(client, a))

CallSetAnnotations(p) ==
  \E d \in CallerDetectorIds, r \in CallerRasterIds, t \in AnnotationTypeArgs, g \in GeoJSONs :
    LET a == [detectorId |-> d, rasterId |-> r, annotationType |-> t, annotationsGeoJSon |-> g]
    IN Call(p, "setAnnotations", a, setAnnotations(client, a))

CallTrainDetector(p) ==
  \E d \in CallerDetectorIds :
    LET a == [detectorId |-> d]
    IN Call(p, "trainDetector", a, trainDetector(client, a))

CallRunDetector(p) ==
  \E d \in CallerDetectorIds \cup UuidDetectorIds, r \in CallerRasterIds :
    LET a == [detectorId |-> d, rasterId |-> r]
    IN Call(p, "runDetector", a, runDetector(client, a))

CallCreateDetector(p) ==
  \E n \in NameArgs, dt \in DetectionTypeArgs, ot \in OutputTypeArgs, ts \in TrainingStepsArgs :
    LET a == [name |-> n, detectionType |-> dt, outputType |-> ot, trainingSteps |-> ts]
    IN Call(p, "createDetector", a, createDetector(client, a))

CallEditDetector(p) ==
  \E d \in CallerDetectorIds, n \in NameArgs, dt \in DetectionTypeArgs,
     ot \in OutputTypeArgs, ts \in TrainingStepsArgs :
    LET a == [detectorId |-> d, name |-> n, detectionType |-> dt, outputType |-> ot,
              trainingSteps |-> ts]
    IN Call(p, "editDetector", a, editDetector(client, a))

CallGetRasterById(p) ==
  \E r \in CallerRasterIds :
    LET a == [rasterId |-> r] IN Call(p, "getRasterById", a, getRasterById(client, a))

CallGetDetectorById(p) ==
  \E d \in CallerDetectorIds :
    LET a == [detectorId |-> d] IN Call(p, "getDetectorById", a, getDetectorById(client, a))

CallDeleteRasterById(p) ==
  \E r \in CallerRasterIds :
    LET a == [rasterId |-> r] IN Call(p, "deleteRasterById", a, deleteRasterById(client, a))

CallAddRasterToDetector(p) ==
  \E r \in CallerRasterIds, d \in CallerDetectorIds :
    LET a == [rasterId |-> r, detectorId |-> d]
    IN Call(p, "addRasterToDetector", a, addRasterToDetector(client, a))

CallListRasters(p) == Call(p, "listRasters", <<>>, listRasters(client, <<>>))

CallListDetectors(p) == Call(p, "listDetectors", <<>>, listDetectors(client, <<>>))

CallDownloadResultToFile(p) ==
  \E o \in CallerOperationIds, f \in FileNames :
    LET a == [operationId |-> o, fileName |-> f]
    IN Call(p, "downloadResultToFile", a, downloadResultToFile(client, a))

\* a status poll answered 2xx with a status that is neither success nor failed
NonTerminalAnswer(response) ==
  /\ response.net = "ok" /\ ok(response) /\ response.body.json
  /\ Field(response.body.data, "status") \notin {"success", "failed"}

\* a fetch settles and the awaiting method resumes
Settle(p, req, response) ==
  LET eff == Resume(client, op[p], args[p], pc[p], loc[p], response)
  IN /\ Apply(p, {req}, <<RespEvent(pc[p], response, eff.parsed)>> \o Events(eff), eff)
     /\ busy' = [busy EXCEPT ![p] =
                   @ /\ (pc[p] = "wait_poll" => NonTerminalAnswer(response))]
     /\ UNCHANGED <<client, op, args, now, env, built>>

Respond(p) ==
  \E req \in inflight[p] :
    \E response \in Responses(op[p], pc[p], loc[p]) : Settle(p, req, response)

\* a sleep timer fires and the poll loop issues its next status request
TimerFires(p) ==
  /\ pc[p] \in {"wait_sleep0", "wait_sleep"}
  /\ LET eff == waitPollRequest(client, loc[p])
     IN Apply(p, {}, Events(eff), eff)
  /\ UNCHANGED <<client, op, args, busy, now, env, built>>

Next ==
  \E p \in Procs :
    \/ CallUploadRaster(p)
    \/ CallSetRasterDetectionAreaFromFile(p)
    \/ CallSetAnnotations(p)
    \/ CallTrainDetector(p)
    \/ CallRunDetector(p)
    \/ CallCreateDetector(p)
    \/ CallEditDetector(p)
    \/ CallGetRasterById(p)
    \/ CallGetDetectorById(p)
    \/ CallDeleteRasterById(p)
    \/ CallAddRasterToDetector(p)
    \/ CallListRasters(p)
    \/ CallListDetectors(p)
    \/ CallDownloadResultToFile(p)
    \/ Respond(p)
    \/ TimerFires(p)

Spec == Init /\ [][Next]_vars

\* The event loop runs every settled fetch's continuation and every expired
\* timer; the server answers every request.
FairSpec == Spec /\ \A p \in Procs : WF_vars(Respond(p)) /\ WF_vars(TimerFires(p))

\* ================================================================ claims
\* ---------------------------------------------------------------- helpers
Requests(tr) == SelectSeq(tr, LAMBDA e : e.ev = "req")
Answers(tr, at) == SelectSeq(tr, LAMBDA e : e.ev = "resp" /\ e.at = at)
Sleeps(tr) == SelectSeq(tr, LAMBDA e : e.ev = "sleep")
IsInternal(r) == r.url[1] = client.baseUrl
HasApiKey(r) == "X-Api-Key" \in DOMAIN r.headers
IsPoll(r) == r.method = "GET" /\ IsInternal(r) /\ r.url[2] = "operations"
PollRequests(tr) == SelectSeq(tr, LAMBDA e : e.ev = "req" /\ IsPoll(e.req))
\* the status a poll answer carries ("" when it carries none that is read)
StatusOf(e) ==
  IF e.resp.net = "ok" /\ ok(e.resp) /\ e.resp.body.json
    THEN Field(e.resp.body.data, "status") ELSE ""
Last(tr) == tr[Len(tr)]
Polling(p) == op[p] \in PollingMethods /\ pc[p] \in {"wait_sleep0", "wait_poll", "wait_sleep"}
StagedUploads == {"uploadRaster", "setRasterDetectionAreaFromFile", "setAnnotations"}
TimedOut(o) == o.state = "rejected" /\ o.error.msg = <<"Request timed-out">>

\* C1: a poll loop whose status requests are all answered 2xx with a
\* non-terminal status ends, sooner or later, with a timed-out failure: once
\* a method is polling, either the server gives another kind of answer or
\* the call is rejected as timed out.
C1_PollLoopTimesOut ==
  \A p \in Procs : Polling(p) ~> (TimedOut(outcome[p]) \/ ~busy[p])

\* C2: when the status polls are answered N times with a non-terminal status
\* and then with 'success', the call resolves after exactly N+1 status
\* requests and nothing is requested after the 'success' answer.
C2_SuccessAfterNPlusOnePolls ==
  \A p \in Procs :
    LET answers == Answers(trace[p], "wait_poll")
        n == Len(answers)
    IN (op[p] \in PollingMethods /\ ~lost[p] /\ n > 0 /\ StatusOf(answers[n]) = "success")
       => /\ outcome[p].state = "resolved"
          /\ \A i \in 1..(n - 1) : NonTerminalAnswer(answers[i].resp)
          /\ Len(PollRequests(trace[p])) = n
          /\ Last(trace[p]) = answers[n]
          /\ inflight[p] = {}

C2_Witness ==
  \E p \in Procs :
    /\ op[p] = "trainDetector" /\ outcome[p].state = "resolved"
    /\ Len(PollRequests(trace[p])) = 3

\* C3: when a status poll is answered 'failed', the call is rejected at once
\* with the operation-failed error naming the operation id the commit answer
\* gave; no request and no sleep follows that answer.
C3_FailedStopsPolling ==
  \A p \in Procs :
    LET answers == Answers(trace[p], "wait_poll")
        n == Len(answers)
        started == Answers(trace[p], "commit")
    IN (op[p] \in PollingMethods /\ ~lost[p] /\ n > 0 /\ StatusOf(answers[n]) = "failed")
       => /\ outcome[p].state = "rejected"
          /\ outcome[p].error =
               APIError(<<"Operation", started[1].resp.body.data["operation_id"], "failed.">>, "")
          /\ Last(trace[p]) = answers[n]
          /\ Len(PollRequests(trace[p])) = n
          /\ Len(Sleeps(trace[p])) = n
          /\ inflight[p] = {}
          /\ pc[p] = "done"

C3_Witness ==
  \E p \in Procs :
    /\ op[p] = "uploadRaster" /\ outcome[p].state = "rejected"
    /\ Len(Answers(trace[p], "wait_poll")) = 2
    /\ StatusOf(Last(trace[p])) = "failed"

\* C4: in a staged upload the requests are strictly sequential: a request is
\* issued only when every earlier one has been answered, at most one is in
\* flight, and they come in the order initiate POST, storage PUT, commit
\* POST, status polls.
C4_StagedUploadSequential ==
  \A p \in Procs :
    LET tr == trace[p]
        reqs == Requests(tr)
    IN op[p] \in StagedUploads =>
       /\ Cardinality(inflight[p]) <= 1
       /\ \A i \in DOMAIN tr :
            tr[i].ev = "req" =>
              Len(Requests(SubSeq(tr, 1, i - 1))) =
              Len(SelectSeq(SubSeq(tr, 1, i - 1), LAMBDA e : e.ev = "resp"))
       /\ \A k \in DOMAIN reqs :
            /\ k = 1 => reqs[k].req.method = "POST" /\ IsInternal(reqs[k].req)
            /\ k = 2 => reqs[k].req.method = "PUT" /\ ~IsInternal(reqs[k].req)
            /\ k = 3 => /\ reqs[k].req.method = "POST" /\ IsInternal(reqs[k].req)
                        /\ Last(reqs[k].req.url) = "commit"
            /\ k > 3 => IsPoll(reqs[k].req)

C4_Witness ==
  \E p \in Procs :
    /\ op[p] = "setAnnotations" /\ pc[p] = "wait_poll"
    /\ Len(Requests(trace[p])) = 5

\* C5: when the PUT to the upload URL is answered with a non-2xx status the
\* staged upload is rejected and neither a commit nor a status poll is sent.
C5_FailedPutNoCommit ==
  \A p \in Procs :
    LET puts == Answers(trace[p], "put")
    IN (op[p] \in StagedUploads /\ puts # <<>> /\ puts[1].resp.net = "ok" /\ ~ok(puts[1].resp))
       => /\ outcome[p].state = "rejected"
          /\ outcome[p].error = checkResponse(puts[1].resp)
          /\ Len(Requests(trace[p])) = 2
          /\ Last(trace[p]) = puts[1]
          /\ inflight[p] = {}

C5_Witness ==
  \E p \in Procs :
    /\ op[p] = "setRasterDetectionAreaFromFile"
    /\ Answers(trace[p], "put") # <<>>
    /\ Last(trace[p]).ev = "resp"
    /\ Last(trace[p]).at = "put"
    /\ Last(trace[p]).resp.net = "ok"
    /\ Last(trace[p]).resp.status = 500
    /\ outcome[p].state = "rejected"

\* C6: every response is checked before its body is read: a non-2xx answer
\* to any request of any method rejects the call with the ApiError carrying
\* that status code and the body text, and the body is never parsed as JSON.
C6_EveryResponseChecked ==
  \A p \in Procs :
    \A i \in DOMAIN trace[p] :
      LET e == trace[p][i] IN
      (e.ev = "resp" /\ e.resp.net = "ok" /\ ~ok(e.resp))
      => /\ ~e.parsed
         /\ outcome[p].state = "rejected"
         /\ outcome[p].error =
              APIError(<<"Error from API: status code", ToString(e.resp.status)>>,
                       e.resp.body.text)

RECURSIVE StatusesOf(_)
StatusesOf(answers) ==
  IF answers = <<>> THEN <<>>
  ELSE <<StatusOf(Head(answers))>> \o StatusesOf(Tail(answers))

\* what C8 promises of an uploadRaster whose polls were answered `statuses`
UploadReturnsAfter(p, statuses) ==
  LET tr == trace[p]
      reqs == Requests(tr)
      initiated == Answers(tr, "initiate")
  IN (op[p] = "uploadRaster" /\ ~lost[p]
      /\ StatusesOf(Answers(tr, "wait_poll")) = statuses)
     => /\ outcome[p].state = "resolved"
        /\ outcome[p].value = VStr(initiated[1].resp.body.data["raster_id"])
        /\ Len(reqs) = 3 + Len(statuses)
        /\ reqs[1].req.url = <<client.baseUrl, "rasters", "upload", "file">>
        /\ reqs[1].req.method = "POST"
        /\ reqs[2].req.url = <<initiated[1].resp.body.data["upload_url"]>>
        /\ reqs[2].req.method = "PUT"
        /\ reqs[3].req.url =
             <<client.baseUrl, "rasters", initiated[1].resp.body.data["raster_id"], "commit">>
        /\ reqs[3].req.method = "POST"
        /\ \A k \in 4..Len(reqs) : IsPoll(reqs[k].req)
        /\ Last(tr).ev = "resp"
        /\ inflight[p] = {}

KeyOnlyToApi(r) ==
  /\ HasApiKey(r) <=> IsInternal(r)
  /\ HasApiKey(r) => r.headers["X-Api-Key"] = client.apiKey
  /\ r.method = "PUT" /\ r.body.kind = "stream" => ~HasApiKey(r)
  /\ r.url[1] \in ResultUrls \cup {"https://storage/1", "https://storage/2"} => ~HasApiKey(r)

C9_ApiKeyOnlyToApi ==
  \A p \in Procs :
    /\ \A r \in inflight[p] : KeyOnlyToApi(r)
    /\ \A i \in DOMAIN trace[p] : trace[p][i].ev = "req" => KeyOnlyToApi(trace[p][i].req)

C9_Witness ==
  \E p \in Procs :
    /\ op[p] = "downloadResultToFile" /\ pc[p] = "download"
    /\ \E r \in inflight[p] : r.url[1] \in ResultUrls /\ ~HasApiKey(r)
    /\ HasApiKey(trace[p][1].req)

\* C10: for every detection type that is not 'count' or 'segmentation'
\* (compared case-insensitively) createDetector and editDetector reject with
\* a ValidationError, having issued no request, whatever the other arguments.
C10_BadDetectionTypeRejected ==
  \A p \in Procs :
    (/\ op[p] \in {"createDetector", "editDetector"}
     /\ args[p].detectionType.t = "string"
     /\ toLowerCase(args[p].detectionType.v) \notin detectionTypes)
    => /\ outcome[p].state = "rejected"
       /\ outcome[p].error.name = "Validation Error"
       /\ trace[p] = <<>>
       /\ inflight[p] = {}

\* --------------------------------------------------------------------- C11
\* a string argument whose lowercase form is one of the allowed values
ValidString(x, allowed) == x.t = "string" /\ toLowerCase(x.v) \in allowed

\* the arguments of a detector call other than trainingSteps pass validation
OtherDetectorArgsValid(p) ==
  LET a == args[p] IN
  IF op[p] = "createDetector"
    THEN /\ a.detectionType.t = "undefined" \/ ValidString(a.detectionType, detectionTypes)
         /\ a.outputType.t = "undefined" \/ ValidString(a.outputType, outputTypes)
    ELSE /\ Truthy(a.name)
         /\ ~Truthy(a.detectionType) \/ ValidString(a.detectionType, detectionTypes)
         /\ ~Truthy(a.outputType) \/ ValidString(a.outputType, outputTypes)

\* C11: createDetector and editDetector reject, without a request, every
\* integer trainingSteps outside [500, 40000] (0, 499 and 40001 among them)
\* and send every value inside the range, 500 and 40000 included, in the
\* request body.
C11_TrainingStepsRange ==
  \A p \in Procs :
    (/\ op[p] \in {"createDetector", "editDetector"}
     /\ args[p].trainingSteps.t = "number"
     /\ OtherDetectorArgsValid(p))
    => IF args[p].trainingSteps.v < 500 \/ args[p].trainingSteps.v > 40000
         THEN /\ outcome[p].state = "rejected"
              /\ outcome[p].error.name = "Validation Error"
              /\ trace[p] = <<>>
              /\ inflight[p] = {}
         ELSE /\ trace[p] # <<>>
              /\ trace[p][1].ev = "req"
              /\ trace[p][1].req.body.json["configuration"]["training_steps"] =
                   args[p].trainingSteps

\* --------------------------------------------------------------------- C12
\* an argument the caller left out (not passed, or passed as null)
Omitted(x) == x.t \in {"undefined", "null"}

\* every argument of an editDetector call is left out or holds a valid value
EditArgsValid(a) ==
  /\ Omitted(a.name) \/ (a.name.t = "string" /\ a.name.v # <<>>)
  /\ Omitted(a.detectionType) \/ ValidString(a.detectionType, detectionTypes)
  /\ Omitted(a.outputType) \/ ValidString(a.outputType, outputTypes)
  /\ Omitted(a.trainingSteps)
       \/ (a.trainingSteps.t = "number" /\ a.trainingSteps.v >= 500 /\ a.trainingSteps.v <= 40000)

\* the configuration fields the caller supplied
SuppliedConfiguration(a) ==
  (IF Omitted(a.detectionType) THEN <<>>
   ELSE ("detection_type" :> VStr(toLowerCase(a.detectionType.v)))) @@
  (IF Omitted(a.outputType) THEN <<>>
   ELSE ("output_type" :> VStr(toLowerCase(a.outputType.v)))) @@
  (IF Omitted(a.trainingSteps) THEN <<>> ELSE ("training_steps" :> a.trainingSteps))

\* the configuration a request body carries (none reads as the empty one)
ConfigurationOf(json) ==
  IF "configuration" \in DOMAIN json THEN json["configuration"] ELSE <<>>

\* C12: editDetector called with any subset of name, detectionType,
\* outputType and trainingSteps, each valid, the subsets without name
\* included, issues exactly one PUT to /detectors/{id}/ whose body holds the
\* supplied fields and no other, and resolves to true on a 2xx answer.
C12_EditSendsSuppliedFields ==
  \A p \in Procs :
    (op[p] = "editDetector" /\ EditArgsValid(args[p]))
    => LET tr == trace[p]
           a == args[p]
       IN /\ tr # <<>>
          /\ tr[1].ev = "req"
          /\ tr[1].req.method = "PUT"
          /\ tr[1].req.url = <<client.baseUrl, "detectors", a.detectorId>>
          /\ Len(Requests(tr)) = 1
          /\ ("name" \in DOMAIN tr[1].req.body.json) <=> ~Omitted(a.name)
          /\ ~Omitted(a.name) => tr[1].req.body.json["name"] = a.name
          /\ ConfigurationOf(tr[1].req.body.json) = SuppliedConfiguration(a)
          /\ (Len(tr) = 2 /\ tr[2].resp.net = "ok" /\ ok(tr[2].resp))
               => (outcome[p].state = "resolved" /\ outcome[p].value = VTrue)

\* --------------------------------------------------------------------- C13
ListMethods == {"listRasters", "listDetectors"}
CollectionOf(method) == IF method = "listRasters" THEN "rasters" ELSE "detectors"

\* a page answer that is 2xx JSON, and whether it names a next page
IsPage(e) == e.resp.net = "ok" /\ ok(e.resp) /\ e.resp.body.json
HasNext(e) == Field(e.resp.body.data, "next") \notin {Undefined, "null", ""}

\* the 'results' of the page answers, concatenated in page order
RECURSIVE ResultsOf(_)
ResultsOf(answers) ==
  IF answers = <<>> THEN <<>>
  ELSE Head(answers).resp.body.data["results"] \o ResultsOf(Tail(answers))

\* C13: the list methods request the pages 1, 2, 3, ... once each, in that
\* order and one at a time; when the first k-1 pages carried a 'next' and
\* page k carried none, nothing is requested after page k and the call
\* resolves to the pages' 'results' concatenated in page order, repeated
\* entries kept.
C13_PagesConcatenated ==
  \A p \in Procs :
    op[p] \in ListMethods =>
      LET tr == trace[p]
          reqs == Requests(tr)
          answers == Answers(tr, "page")
          k == Len(answers)
      IN /\ \A i \in DOMAIN reqs :
              /\ reqs[i].req.method = "GET"
              /\ reqs[i].req.url =
                   <<client.baseUrl, CollectionOf(op[p]), "?page_number=" \o ToString(i)>>
         /\ Len(reqs) <= k + 1
         /\ \A i \in 1..(k - 1) : IsPage(answers[i]) /\ HasNext(answers[i])
         /\ (k > 0 /\ IsPage(answers[k]) /\ ~HasNext(answers[k]))
              => /\ Len(reqs) = k
                 /\ inflight[p] = {}
                 /\ Last(tr) = answers[k]
                 /\ outcome[p].state = "resolved"
                 /\ outcome[p].value = VList(ResultsOf(answers))

C13_Witness ==
  \E p \in Procs :
    /\ op[p] = "listRasters" /\ outcome[p].state = "resolved"
    /\ Len(Requests(trace[p])) = 3
    /\ outcome[p].value = VList(<<"a", "a", "b", "a">>)

\* --------------------------------------------------------------------- C14
\* C14: downloadResultToFile first sends one GET of the operation status with
\* the API key.  A status other than 'success' rejects the call with no GET
\* of a result URL and no destination file.  With 'success' and a result URL
\* it sends exactly one GET of that URL, without the API key; a non-2xx
\* answer to it rejects the call and no destination file is opened.
C14_DownloadOnlyAfterSuccess ==
  \A p \in Procs :
    op[p] = "downloadResultToFile" =>
      LET tr == trace[p]
          reqs == Requests(tr)
          status == Answers(tr, "status")
          download == Answers(tr, "download")
      IN /\ reqs # <<>>
         /\ reqs[1].req.method = "GET"
         /\ reqs[1].req.url = <<client.baseUrl, "operations", args[p].operationId>>
         /\ HasApiKey(reqs[1].req)
         /\ tr[1] = reqs[1]
         /\ Len(reqs) <= 2
         /\ (status # <<>> /\ IsPage(status[1]) /\ StatusOf(status[1]) # "success")
              => /\ outcome[p].state = "rejected"
                 /\ Len(reqs) = 1
                 /\ inflight[p] = {}
                 /\ files[p] = {}
         /\ (/\ status # <<>> /\ StatusOf(status[1]) = "success"
             /\ "results" \in DOMAIN status[1].resp.body.data)
              => /\ Len(reqs) = 2
                 /\ reqs[2].req.method = "GET"
                 /\ reqs[2].req.url = <<status[1].resp.body.data["results"]["url"]>>
                 /\ ~HasApiKey(reqs[2].req)
                 /\ tr[3] = reqs[2]
         /\ (download # <<>> /\ download[1].resp.net = "ok" /\ ~ok(download[1].resp))
              => /\ outcome[p].state = "rejected"
                 /\ inflight[p] = {}
                 /\ files[p] = {}
         /\ files[p] # {}
              => /\ download # <<>> /\ download[1].resp.net = "ok" /\ ok(download[1].resp)
                 /\ files[p] = {args[p].fileName}

C14_Witness ==
  \E p \in Procs :
    /\ op[p] = "downloadResultToFile" /\ outcome[p].state = "rejected"
    /\ Len(Requests(trace[p])) = 2
    /\ Answers(trace[p], "download") # <<>>
    /\ Last(trace[p]).resp.net = "ok"
    /\ Last(trace[p]).resp.status = 404
    /\ files[p] = {}

\* --------------------------------------------------------------------- C15
\* a response that reports a failure: the fetch rejected or the status is not 2xx
FailedResponse(r) == r.net = "error" \/ ~ok(r)

\* C15: no request follows a failed response within an invocation; a request
\* is issued twice only if it is the status poll, and each poll after the
\* first follows a poll answered 2xx with a non-terminal status; a status
\* poll answered non-2xx rejects the call with the ApiError of that answer.
C15_NoRetryAfterFailure ==
  \A p \in Procs :
    LET tr == trace[p]
        polls == PollRequests(tr)
        answers == Answers(tr, "wait_poll")
    IN /\ \A i, j \in DOMAIN tr :
            (i < j /\ tr[i].ev = "resp" /\ FailedResponse(tr[i].resp)) => tr[j].ev # "req"
       /\ \A i, j \in DOMAIN tr :
            (i < j /\ tr[i].ev = "req" /\ tr[j].ev = "req" /\ tr[i].req = tr[j].req)
              => IsPoll(tr[i].req)
       /\ \A k \in 2..Len(polls) : NonTerminalAnswer(answers[k - 1].resp)
       /\ \A k \in DOMAIN answers :
            (answers[k].resp.net = "ok" /\ ~ok(answers[k].resp))
              => /\ k = Len(answers)
                 /\ Len(polls) = k
                 /\ outcome[p].state = "rejected"
                 /\ outcome[p].error = checkResponse(answers[k].resp)
                 /\ inflight[p] = {}

C15_Witness ==
  \E p \in Procs :
    /\ op[p] = "setAnnotations" /\ outcome[p].state = "rejected"
    /\ Len(PollRequests(trace[p])) = 3
    /\ Last(trace[p]).ev = "resp" /\ Last(trace[p]).at = "wait_poll"
    /\ Last(trace[p]).resp.net = "ok" /\ Last(trace[p]).resp.status = 500

\* --------------------------------------------------------------------- C16
\* a commit or poll answer after which the staged upload cannot go on
FailsUpload(e) ==
  \/ FailedResponse(e.resp)
  \/ ~e.resp.body.json
  \/ (e.at = "wait_poll" /\ StatusOf(e) = "failed")

\* C16: when a staged upload fails at the commit step or while polling, the
\* failing answer is the last event of the invocation: the call is rejected,
\* nothing is in flight and no timer is pending; and no staged upload ever
\* issues a DELETE.
C16_NoCleanupAfterFailure ==
  \A p \in Procs :
    op[p] \in StagedUploads =>
      LET tr == trace[p] IN
      /\ \A i \in DOMAIN tr : tr[i].ev = "req" => tr[i].req.method \in {"POST", "PUT", "GET"}
      /\ \A r \in inflight[p] : r.method \in {"POST", "PUT", "GET"}
      /\ \A i \in DOMAIN tr :
           (tr[i].ev = "resp" /\ tr[i].at \in {"commit", "wait_poll"} /\ FailsUpload(tr[i]))
             => /\ i = Len(tr)
                /\ loc[p].resourceId # Undefined
                /\ outcome[p].state = "rejected"
                /\ inflight[p] = {}
                /\ pc[p] = "done"

C16_Witness ==
  \E p \in Procs :
    /\ op[p] = "uploadRaster" /\ outcome[p].state = "rejected"
    /\ loc[p].resourceId = "R2"
    /\ Last(trace[p]).ev = "resp" /\ Last(trace[p]).at = "commit"
    /\ Last(trace[p]).resp.net = "ok" /\ Last(trace[p]).resp.status = 500
    /\ Len(Requests(trace[p])) = 3

\* --------------------------------------------------------------------- C17
\* Two invocations on one shared client.  The server's answers are the ones
\* that tell two operations apart: either operation id, a pending, a
\* successful and a failed status, and a 500.
ConcProcs == {"p1", "p2"}

ConcResponses(method, at) ==
  {Http(500, ErrorJson)} \cup
  CASE at = "initiate" -> {Http(201, Json(d)) : d \in FileUploads}
    [] at = "put" -> {Http(201, EmptyBody)}
    [] at = "commit" -> {Http(201, Json(d)) : d \in Operations}
    [] at = "wait_poll" ->
         {Http(200, Json("status" :> st)) : st \in {"processing", "success", "failed"}}
    [] OTHER -> {Http(200, Json("id" :> "X1"))}

ConcInit ==
  /\ client = APIClient("secret", "https://api", DefaultTimeoutSeconds)
  /\ op = [p \in ConcProcs |-> "idle"]
  /\ args = [p \in ConcProcs |-> <<>>]
  /\ pc = [p \in ConcProcs |-> "idle"]
  /\ loc = [p \in ConcProcs |-> NoLocals]
  /\ inflight = [p \in ConcProcs |-> {}]
  /\ trace = [p \in ConcProcs |-> <<>>]
  /\ lost = [p \in ConcProcs |-> FALSE]
  /\ busy = [p \in ConcProcs |-> TRUE]
  /\ outcome = [p \in ConcProcs |-> Pending]
  /\ files = [p \in ConcProcs |-> {}]
  /\ now = 0
  /\ env = InitialEnv
  /\ built = InitialClient

ConcRespond(p) ==
  \E req \in inflight[p] :
    \E response \in ConcResponses(op[p], pc[p]) : Settle(p, req, response)

ConcNext ==
  \E p \in ConcProcs :
    \/ CallTrainDetector(p)
    \/ CallRunDetector(p)
    \/ CallSetRasterDetectionAreaFromFile(p)
    \/ CallGetRasterById(p)
    \/ ConcRespond(p)
    \/ TimerFires(p)

ConcSpec == ConcInit /\ [][ConcNext]_vars

\* the method called, run up to its first await
Start(c, method, a) ==
  CASE method = "uploadRaster" -> uploadRaster(c, a)
    [] method = "setRasterDetectionAreaFromFile" -> setRasterDetectionAreaFromFile(c, a)
    [] method = "setAnnotations" -> setAnnotations(c, a)
    [] method = "trainDetector" -> trainDetector(c, a)
    [] method = "runDetector" -> runDetector(c, a)
    [] method = "createDetector" -> createDetector(c, a)
    [] method = "editDetector" -> editDetector(c, a)
    [] method = "getRasterById" -> getRasterById(c, a)
    [] method = "getDetectorById" -> getDetectorById(c, a)
    [] method = "deleteRasterById" -> deleteRasterById(c, a)
    [] method = "addRasterToDetector" -> addRasterToDetector(c, a)
    [] method = "listRasters" -> listRasters(c, a)
    [] method = "listDetectors" -> listDetectors(c, a)
    [] method = "downloadResultToFile" -> downloadResultToFile(c, a)

\* what an invocation received, in order: the responses, and a timer expiry
\* for every sleep that was followed by a request
RECURSIVE InputsOf(_)
InputsOf(tr) ==
  IF tr = <<>> THEN <<>>
  ELSE LET n == Len(tr)
           before == InputsOf(SubSeq(tr, 1, n - 1))
       IN IF tr[n].ev = "resp" THEN Append(before, [kind |-> "response", resp |-> tr[n].resp])
          ELSE IF tr[n].ev = "req" /\ n > 1 /\ tr[n - 1].ev = "sleep"
            THEN Append(before, [kind |-> "timer", resp |-> NetworkError])
          ELSE before

\* the invocation run alone on client c: the method called with a and fed inputs
RECURSIVE Alone(_, _, _, _)
Alone(c, method, a, inputs) ==
  IF inputs = <<>>
    THEN LET eff == Start(c, method, a)
         IN [pc |-> eff.pc, loc |-> eff.loc, trace |-> Events(eff), outcome |-> eff.out]
    ELSE LET n == Len(inputs)
             st == Alone(c, method, a, SubSeq(inputs, 1, n - 1))
             timer == inputs[n].kind = "timer"
             eff == IF timer THEN waitPollRequest(c, st.loc)
                    ELSE Resume(c, method, a, st.pc, st.loc, inputs[n].resp)
             evs == IF timer THEN Events(eff)
                    ELSE <<RespEvent(st.pc, inputs[n].resp, eff.parsed)>> \o Events(eff)
         IN [pc |-> eff.pc, loc |-> eff.loc, trace |-> st.trace \o evs, outcome |-> eff.out]

C18_RunDetectorValidatesIds ==
  \A p \in Procs :
    op[p] = "runDetector" =>
      IF uuidValidator(IdText[args[p].detectorId]) /\ uuidValidator(IdText[args[p].rasterId])
        THEN trace[p] # <<>> /\ trace[p][1].ev = "req" /\ trace[p][1].req.method = "POST"
        ELSE /\ outcome[p].state = "rejected"
             /\ outcome[p].error.name = "Validation Error"
             /\ trace[p] = <<>>
             /\ inflight[p] = {}

\* --------------------------------------------------------------------- C19
\* C19: setAnnotations rejects with a ValidationError, with no request
\* issued, every annotation type whose lowercase form is not outline,
\* training_area, testing_area or validation_area; for an accepted type the
\* initiate path and the commit path both hold the lowercase form of it.
C19_AnnotationTypeValidated ==
  \A p \in Procs :
    op[p] = "setAnnotations" =>
      LET a == args[p]
          reqs == Requests(trace[p])
          type == toLowerCase(a.annotationType)
          path == <<client.baseUrl, "detectors", a.detectorId, "training_rasters",
                    a.rasterId, type, "upload", "bulk">>
      IN IF type \notin {"outline", "training_area", "testing_area", "validation_area"}
           THEN /\ outcome[p].state = "rejected"
                /\ outcome[p].error.name = "Validation Error"
                /\ trace[p] = <<>>
                /\ inflight[p] = {}
           ELSE /\ reqs # <<>>
                /\ reqs[1].req.method = "POST"
                /\ reqs[1].req.url = path
                /\ Len(reqs) >= 3 =>
                     /\ reqs[3].req.method = "POST"
                     /\ reqs[3].req.url = path \o <<loc[p].resourceId, "commit">>

C19_Witness ==
  \E p \in Procs :
    /\ op[p] = "setAnnotations"
    /\ args[p].annotationType = <<"O","u","t","l","i","n","e">>
    /\ pc[p] = "commit"
    /\ \E r \in inflight[p] : r.url[6] = "outline" /\ Last(r.url) = "commit"

\* --------------------------------------------------------------------- C20
\* the poll intervals (seconds) the server hands out with the commit answer
DistCommits == {("poll_interval" :> 20), ("poll_interval" :> 40), ("poll_interval" :> 80)}
\* the raster as the poll finds it
DistRasters == {("status" :> "processing"), ("status" :> "ready"), ("status" :> "failed")}
\* how long a fetch takes to settle, in tenths of a second
Latencies == {1, 50}
\* the answers to the other methods of the built client: a detection area
\* upload, its commit and its status; a started detection and its result;
\* a started operation and its status
DistFileUploads == {("upload_id" :> "up1") @@ ("upload_url" :> "https://storage/1")}
DistAreaCommits == {("poll_interval" :> 40)}
DistAreas == {("status" :> "processing"), ("status" :> "ready"), ("status" :> "failed")}
DistRuns == {("result_id" :> "res1") @@ ("poll_interval" :> 40)}
DistResults ==
  {("ready" :> "false"), ("ready" :> "true") @@ ("result_url" :> "https://results/1")}
DistOperations == {("operation_id" :> "O1") @@ ("poll_interval" :> 20)}
DistOperationStatuses ==
  {("status" :> "processing"), ("status" :> "success"), ("status" :> "failed")}

DistResponses(method, at) ==
  {Http(500, ErrorJson), NetworkError} \cup
  CASE at = "initiate" /\ method = "dist_uploadRaster" ->
         {Http(201, Json(d)) : d \in RasterUploads}
    [] at = "initiate" -> {Http(201, Json(d)) : d \in DistFileUploads}
    [] at = "put" -> {Http(201, EmptyBody)}
    [] at = "commit" /\ method = "dist_uploadRaster" ->
         {Http(201, Json(d)) : d \in DistCommits}
    [] at = "commit" /\ method = "dist_setRasterDetectionAreaFromFile" ->
         {Http(201, Json(d)) : d \in DistAreaCommits}
    [] at = "commit" -> {Http(201, Json(d)) : d \in DistOperations}
    [] at \in {"run", "v1_run"} -> {Http(201, Json(d)) : d \in DistRuns}
    [] at = "v1_get" -> {Http(200, Json("id" :> "X1"))}
    [] at = "raster_poll" -> {Http(200, Json(d)) : d \in DistRasters}
    [] at = "area_poll" -> {Http(200, Json(d)) : d \in DistAreas}
    [] at \in {"result_poll", "v1_result_poll"} -> {Http(200, Json(d)) : d \in DistResults}
    [] at = "wait_poll" -> {Http(200, Json(d)) : d \in DistOperationStatuses}
    [] at = "checked" -> {Http(201, EmptyBody)}
    [] at = "page" -> {}

\* the answers to a page request of listRasters: {results, next}, with a
\* next page while fewer than MaxPages pages were asked for
DistPages(p) ==
  IF pc[p] # "page" THEN {}
  ELSE {Http(200, Json(("results" :> rs) @@ ("next" :> n))) :
          rs \in Pages,
          n \in IF loc[p].pageNum < MaxPages THEN {"null", "https://next"} ELSE {"null"}}

DistInit ==
  /\ client = APIClient("secret", "https://api", DistTimeoutSeconds)
  /\ op = [p \in Procs |-> "idle"]
  /\ args = [p \in Procs |-> <<>>]
  /\ pc = [p \in Procs |-> "idle"]
  /\ loc = [p \in Procs |-> NoLocals]
  /\ inflight = [p \in Procs |-> {}]
  /\ trace = [p \in Procs |-> <<>>]
  /\ lost = [p \in Procs |-> FALSE]
  /\ busy = [p \in Procs |-> TRUE]
  /\ outcome = [p \in Procs |-> Pending]
  /\ files = [p \in Procs |-> {}]
  /\ now = 0
  /\ env = InitialEnv
  /\ built = InitialClient

DistCall(p, method, a) == Call(p, method, a, dist_Start(client, method, a))

DistCallUploadRaster(p) ==
  \E f \in FileNames, n \in RasterNames :
    DistCall(p, "dist_uploadRaster", [fileName |-> f, rasterName |-> n])

DistCallRunDetector(p) ==
  \E d \in CallerDetectorIds, r \in CallerRasterIds :
    DistCall(p, "dist_runDetector", [detectorId |-> d, rasterId |-> r])

DistCallSetRasterDetectionAreaFromFile(p) ==
  \E f \in FileNames, r \in CallerRasterIds :
    DistCall(p, "dist_setRasterDetectionAreaFromFile", [fileName |-> f, rasterId |-> r])

DistCallAddRasterToDetector(p) ==
  \E r \in CallerRasterIds, d \in CallerDetectorIds :
    DistCall(p, "dist_addRasterToDetector", [rasterId |-> r, detectorId |-> d])

DistCallSetAnnotations(p) ==
  \E d \in CallerDetectorIds, r \in CallerRasterIds, g \in GeoJSONs :
    DistCall(p, "dist_setAnnotations",
             [detectorId |-> d, rasterId |-> r,
              annotationType |-> <<"o","u","t","l","i","n","e">>, annotationsGeoJSon |-> g])

DistCallTrainDetector(p) ==
  \E d \in CallerDetectorIds :
    DistCall(p, "dist_trainDetector", [detectorId |-> d])

DistCallListRasters(p) == DistCall(p, "dist_listRasters", <<>>)

\* the first build: ids are validated, so some calls pass the raster id of
\* the repository's tests
UuidRasterIds == {"123e4567-e89b-12d3-a456-426655440000"}

DistCallV1GetRasterById(p) ==
  \E r \in CallerRasterIds \cup UuidRasterIds :
    DistCall(p, "v1_getRasterById", [rasterId |-> r])

DistCallV1RunDetectorOnRaster(p) ==
  \E d \in CallerDetectorIds \cup UuidDetectorIds, r \in UuidRasterIds :
    DistCall(p, "v1_runDetectorOnRaster", [detectorId |-> d, rasterId |-> r])

\* a fetch settles after some latency and the awaiting method resumes
DistRespond(p) ==
  \E req \in inflight[p], d \in Latencies :
    \E response \in DistResponses(op[p], pc[p]) \cup DistPages(p) :
      LET eff == dist_Resume(client, op[p], args[p], pc[p], loc[p], response, now + d)
      IN /\ now' = now + d
         /\ Apply(p, {req}, <<RespEvent(pc[p], response, eff.parsed)>> \o Events(eff), eff)
         /\ UNCHANGED <<client, op, args, busy, env, built>>

\* the sleep a method awaits ends: pollInterval seconds after it began, or a
\* tenth of that for the first sleep of _waitUntilOperationCompletes.  The
\* operation poller has no deadline; its polls are followed while the trace
\* records them.
DistTimerFires(p) ==
  /\ pc[p] \in {"raster_sleep", "result_sleep", "area_sleep", "v1_result_sleep",
              "wait_sleep0", "wait_sleep"}
  /\ ~lost[p]
  /\ now' = now + (IF pc[p] = "wait_sleep0" THEN loc[p].pollInterval
                   ELSE loc[p].pollInterval * TenthsPerSecond)
  /\ LET eff == dist_afterSleep(client, args[p], pc[p], loc[p])
     IN Apply(p, {}, Events(eff), eff)
  /\ UNCHANGED <<client, op, args, busy, env, built>>

DistNext ==
  \E p \in Procs :
    \/ DistCallUploadRaster(p)
    \/ DistCallRunDetector(p)
    \/ DistCallSetRasterDetectionAreaFromFile(p)
    \/ DistCallAddRasterToDetector(p)
    \/ DistCallSetAnnotations(p)
    \/ DistCallTrainDetector(p)
    \/ DistCallListRasters(p)
    \/ DistCallV1GetRasterById(p)
    \/ DistCallV1RunDetectorOnRaster(p)
    \/ DistRespond(p)
    \/ DistTimerFires(p)

DistSpec == DistInit /\ [][DistNext]_vars

\* when the loop computed its deadline: Date.now() of `Date.now() + this._timeout`
PollingStart(p) == loc[p].timeout - (client._timeout \div MsPerTenth)

\* C20: on a client built with timeoutSeconds = T, a poll answer of the
\* deadline loop observed more than T seconds after polling started ends the
\* call as timed out.
C20_TimesOutAfterTSeconds ==
  \A p \in Procs :
    LET answers == Answers(trace[p], "raster_poll") IN
    (/\ op[p] = "dist_uploadRaster"
     /\ answers # <<>>
     /\ Last(answers).resp.net = "ok" /\ ok(Last(answers).resp)
     /\ loc[p].observedAt - PollingStart(p) > DistTimeoutSeconds * TenthsPerSecond)
    => TimedOut(outcome[p])

\* --------------------------------------------------------------------- C21
\* what the environment holds and what the caller passes to `new APIClient`
EnvKeys == {Undefined, "", "env-key"}
EnvUrls == {Undefined, "https://env"}
KeyArgs == {Undefined, "", "arg-key"}
UrlArgs == {Undefined, "https://arg"}

CtorInit ==
  /\ client = NoClient
  /\ op = [p \in Procs |-> "idle"]
  /\ args = [p \in Procs |-> <<>>]
  /\ pc = [p \in Procs |-> "idle"]
  /\ loc = [p \in Procs |-> NoLocals]
  /\ inflight = [p \in Procs |-> {}]
  /\ trace = [p \in Procs |-> <<>>]
  /\ lost = [p \in Procs |-> FALSE]
  /\ busy = [p \in Procs |-> TRUE]
  /\ outcome = [p \in Procs |-> Pending]
  /\ files = [p \in Procs |-> {}]
  /\ now = 0
  /\ env = InitialEnv
  /\ built = Construction("none", InitialEnv, Undefined, Undefined, NoError)

\* new APIClient(apiKey, baseUrl) evaluated with the constructor of one build
New(ctor(_, _, _, _)) ==
  /\ built.state = "none"
  /\ \E apiKey \in KeyArgs, baseUrl \in UrlArgs :
       LET r == ctor(env, apiKey, baseUrl, DefaultTimeoutSeconds)
       IN /\ client' = r.this
          /\ built' = Construction(IF r.error = NoError THEN "built" ELSE "thrown",
                                   env, apiKey, baseUrl, r.error)
  /\ UNCHANGED <<op, args, pc, loc, inflight, trace, lost, busy, outcome, files, now, env>>

NewAPIClient == New(constructor)
DistNewAPIClient == New(dist_constructor)

\* the program or its surroundings change process.env
SetEnv ==
  /\ \E key \in EnvKeys, url \in EnvUrls :
       /\ env' = ProcessEnv(key, url)
       /\ env' # env
  /\ UNCHANGED <<client, op, args, pc, loc, inflight, trace, lost, busy, outcome, files,
                 now, built>>

\* a method is called on the client once there is one
CtorCallGetRasterById(p) == built.state = "built" /\ CallGetRasterById(p)
CtorCallDeleteRasterById(p) == built.state = "built" /\ CallDeleteRasterById(p)

CtorNext ==
  \/ NewAPIClient
  \/ DistNewAPIClient
  \/ SetEnv
  \/ \E p \in Procs :
       \/ CtorCallGetRasterById(p)
       \/ CtorCallDeleteRasterById(p)
       \/ Respond(p)

CtorSpec == CtorInit /\ [][CtorNext]_vars

\* the key and the base URL the claim promises for a construction
PromisedKey(b) == IF Not(b.apiKey) THEN b.env.PICTERRA_API_KEY ELSE b.apiKey
PromisedBaseUrl(b) ==
  IF ~Not(b.baseUrl) THEN b.baseUrl
  ELSE IF ~Not(b.env.PICTERRA_BASE_URL) THEN b.env.PICTERRA_BASE_URL ELSE DefaultBaseUrl
SentWith(r, b) ==
  /\ r.url[1] = PromisedBaseUrl(b)
  /\ HasApiKey(r) /\ r.headers["X-Api-Key"] = PromisedKey(b)

\* C21: `new APIClient` takes the API key from the argument if given and
\* else from PICTERRA_API_KEY, and throws an APIError, building no client,
\* when neither is defined; the base URL is the argument, else
\* PICTERRA_BASE_URL, else the default; every request the client sends later
\* carries the key and base URL resolved at construction, whatever the
\* environment has become.
C21_CredentialsResolvedOnce ==
  /\ built.state # "none" =>
       IF Not(built.apiKey) /\ Not(built.env.PICTERRA_API_KEY)
         THEN /\ built.state = "thrown"
              /\ built.error.name = "ApiError"
              /\ client = NoClient
         ELSE /\ built.state = "built"
              /\ client.apiKey = PromisedKey(built)
              /\ client.baseUrl = PromisedBaseUrl(built)
  /\ \A p \in Procs :
       /\ \A r \in inflight[p] : SentWith(r, built)
       /\ \A i \in DOMAIN trace[p] : trace[p][i].ev = "req" => SentWith(trace[p][i].req, built)

\* --------------------------------------------------------------------- C22
\* the methods documented to resolve to a boolean, in the source and in the
\* built client
TrueMethods ==
  {"trainDetector", "setAnnotations", "setRasterDetectionAreaFromFile",
   "addRasterToDetector", "editDetector", "deleteRasterById",
   "dist_trainDetector", "dist_setAnnotations", "dist_addRasterToDetector"}
WaitingMethods ==
  {"trainDetector", "setAnnotations", "setRasterDetectionAreaFromFile",
   "dist_trainDetector", "dist_setAnnotations"}

\* every request so far was answered 2xx and, for a method that waits for an
\* operation, the last status poll reported 'success'
AllWentWell(p) ==
  LET tr == trace[p]
      answers == SelectSeq(tr, LAMBDA e : e.ev = "resp")
  IN /\ answers # <<>>
     /\ Len(answers) = Len(Requests(tr))
     /\ \A i \in DOMAIN answers : answers[i].resp.net = "ok" /\ ok(answers[i].resp)
     /\ IF op[p] \in WaitingMethods
          THEN Last(answers).at = "wait_poll" /\ StatusOf(Last(answers)) = "success"
          ELSE Len(answers) = 1

\* C22: each of trainDetector, setAnnotations, setRasterDetectionAreaFromFile,
\* addRasterToDetector, editDetector and deleteRasterById resolves exactly
\* when all its requests were answered 2xx and the operation it waits for
\* reached 'success', and then to true; it never resolves to another value.
C22_ResolvesToTrue ==
  \A p \in Procs :
    (op[p] \in TrueMethods /\ ~lost[p]) =>
      /\ outcome[p].state = "resolved" <=> AllWentWell(p)
      /\ outcome[p].state = "resolved" => outcome[p].value = VTrue

\* --------------------------------------------------------------------- C23
\* Two staged uploads at a time on one client.  The server hands each
\* initiate and each commit one of two ids and URLs, so that the two
\* invocations can hold different ones.
StagedArgs ==
  [uploadRaster |-> [fileName |-> "raster.tif", rasterName |-> VStr(<<>>), folderId |-> ""],
   setRasterDetectionAreaFromFile |-> [fileName |-> "raster.tif", rasterId |-> "r-1"],
   setAnnotations |-> [detectorId |-> "d-1", rasterId |-> "r-1",
                       annotationType |-> <<"o","u","t","l","i","n","e">>,
                       annotationsGeoJSon |-> "geojson"]]

StagedResponses(method, at) ==
  {Http(500, ErrorJson)} \cup
  CASE at = "initiate" /\ method = "uploadRaster" -> {Http(201, Json(d)) : d \in RasterUploads}
    [] at = "initiate" -> {Http(201, Json(d)) : d \in FileUploads}
    [] at = "put" -> {Http(201, EmptyBody)}
    [] at = "commit" -> {Http(201, Json(d)) : d \in Operations}
    [] at = "wait_poll" -> {Http(200, Json("status" :> st)) : st \in {"processing", "success"}}

StagedCall(p) ==
  \E method \in StagedUploads :
    Call(p, method, StagedArgs[method], Start(client, method, StagedArgs[method]))

StagedRespond(p) ==
  \E req \in inflight[p] :
    \E response \in StagedResponses(op[p], pc[p]) : Settle(p, req, response)

\* a status poll is followed by the next only while the trace records it
StagedTimerFires(p) == ~lost[p] /\ TimerFires(p)

StagedNext ==
  \E p \in ConcProcs :
    \/ StagedCall(p)
    \/ StagedRespond(p)
    \/ StagedTimerFires(p)

StagedSpec == ConcInit /\ [][StagedNext]_vars

\* the path of the commit request that belongs to the id an initiate answer gave
CommitPathFor(method, a, data) ==
  CASE method = "uploadRaster" -> <<"rasters", data["raster_id"], "commit">>
    [] method = "setRasterDetectionAreaFromFile" ->
         <<"rasters", a.rasterId, "detection_areas", "upload", data["upload_id"], "commit">>
    [] method = "setAnnotations" ->
         <<"detectors", a.detectorId, "training_rasters", a.rasterId,
           toLowerCase(a.annotationType), "upload", "bulk", data["upload_id"], "commit">>

\* C23: in every staged upload, also with two of them interleaved on one
\* client, the PUT goes to the upload_url of this invocation's initiate
\* answer, the commit path holds the raster_id / upload_id of that answer, and
\* every status poll asks for the operation_id of this invocation's commit
\* answer.
C23_IdsOfTheSameInvocation ==
  \A p \in DOMAIN op :
    op[p] \in StagedUploads =>
      LET tr == trace[p]
          reqs == Requests(tr)
          initiated == Answers(tr, "initiate")
          committed == Answers(tr, "commit")
          pollUrl == <<client.baseUrl, "operations",
                       committed[1].resp.body.data["operation_id"]>>
      IN /\ Len(reqs) >= 2 =>
              /\ reqs[2].req.method = "PUT"
              /\ reqs[2].req.url = <<initiated[1].resp.body.data["upload_url"]>>
         /\ Len(reqs) >= 3 =>
              /\ reqs[3].req.method = "POST"
              /\ reqs[3].req.url =
                   <<client.baseUrl>> \o
                   CommitPathFor(op[p], args[p], initiated[1].resp.body.data)
         /\ \A k \in 4..Len(reqs) : reqs[k].req.url = pollUrl
         /\ pc[p] = "wait_poll" => \A r \in inflight[p] : r.url = pollUrl

C23_Witness ==
  /\ op["p1"] = "uploadRaster" /\ op["p2"] = "setAnnotations"
  /\ pc["p1"] = "wait_poll" /\ pc["p2"] = "wait_poll"
  /\ Requests(trace["p1"])[2].req.url = <<"https://storage/1">>
  /\ Requests(trace["p2"])[2].req.url = <<"https://storage/2">>
  /\ Last(Requests(trace["p1"])[3].req.url) = "commit"
  /\ Requests(trace["p1"])[3].req.url[3] = "R1"
  /\ Requests(trace["p2"])[3].req.url[9] = "up2"
  /\ \E r \in inflight["p1"] : r.url[3] = "O2"
  /\ \E r \in inflight["p2"] : r.url[3] = "O1"

\* --------------------------------------------------------------------- C24
\* the sum of the requested sleeps, in tenths of a second
RECURSIVE TotalSleep(_)
TotalSleep(sleeps) ==
  IF sleeps = <<>> THEN 0 ELSE Head(sleeps).dur + TotalSleep(Tail(sleeps))

\* C24: with I the poll interval of the commit answer (seconds),
\* _waitUntilOperationCompletes first sleeps 0.1 * I, each status request
\* follows a sleep directly, every sleep after the first lasts I, and no sleep
\* follows an answer of 'success' or 'failed'; after N non-terminal answers
\* and then 'success' the sleeps add up to (0.1 + N) * I.
C24_SleepsOfThePoller ==
  \A p \in Procs :
    (op[p] \in PollingMethods /\ ~lost[p] /\ Answers(trace[p], "commit") # <<>>) =>
      LET tr == trace[p]
          sleeps == Sleeps(tr)
          polls == PollRequests(tr)
          answers == Answers(tr, "wait_poll")
          n == Len(answers)
          interval == Field(Answers(tr, "commit")[1].resp.body.data, "poll_interval")
      IN /\ sleeps # <<>> => sleeps[1].dur * 10 = interval * TenthsPerSecond
         /\ \A k \in 2..Len(sleeps) : sleeps[k].dur = interval * TenthsPerSecond
         /\ \A i \in DOMAIN tr :
              /\ (tr[i].ev = "req" /\ IsPoll(tr[i].req)) => tr[i - 1].ev = "sleep"
              /\ (tr[i].ev = "sleep" /\ i < Len(tr)) => tr[i + 1].ev = "req"
              /\ tr[i].ev = "sleep" =>
                   (tr[i - 1].ev = "resp" /\ tr[i - 1].at \in {"commit", "wait_poll"})
         /\ Len(polls) = 0 => Len(sleeps) <= 1
         /\ (n > 0 /\ StatusOf(answers[n]) \in {"success", "failed"})
              => /\ Last(tr) = answers[n]
                 /\ Len(sleeps) = n
                 /\ pc[p] = "done"
         /\ (n > 0 /\ StatusOf(answers[n]) = "success")
              => TotalSleep(sleeps) * 10 = (1 + 10 * (n - 1)) * interval * TenthsPerSecond

C24_Witness ==
  \E p \in Procs :
    /\ op[p] = "trainDetector" /\ outcome[p].state = "resolved"
    /\ Len(Answers(trace[p], "wait_poll")) = 3
    /\ Field(Answers(trace[p], "commit")[1].resp.body.data, "poll_interval") = 2
    /\ TotalSleep(Sleeps(trace[p])) = 42

\* --------------------------------------------------------------------- C25
\* what an operation's status answer may hold: the two terminal words, words
\* for work in progress, the terminal words in another letter case, a word
\* the client has never heard of, and no status field at all
PollStatuses ==
  {("status" :> "success"), ("status" :> "failed"),
   ("status" :> "pending"), ("status" :> "running"), ("status" :> "processing"),
   ("status" :> "Success"), ("status" :> "FAILED"), ("status" :> "bogus"), <<>>}

PollResponses(at) ==
  IF at = "wait_poll" THEN {Http(200, Json(d)) : d \in PollStatuses} \cup {Http(500, ErrorJson)}
  ELSE {Http(201, Json(d)) : d \in Operations}

PollRespond(p) ==
  \E req \in inflight[p] :
    \E response \in PollResponses(pc[p]) : Settle(p, req, response)

PollNext ==
  \E p \in Procs :
    \/ CallTrainDetector(p)
    \/ CallRunDetector(p)
    \/ PollRespond(p)
    \/ TimerFires(p)

PollSpec == Init /\ [][PollNext]_vars

\* C25: a status poll answered 2xx with any status other than exactly
\* 'success' and exactly 'failed', a missing status included, does not settle
\* the call: the poller sleeps one poll interval and then polls the same
\* operation again.
C25_OtherStatusesKeepPolling ==
  \A p \in Procs :
    LET tr == trace[p] IN
    \A i \in DOMAIN tr :
      (/\ tr[i].ev = "resp" /\ tr[i].at = "wait_poll"
       /\ tr[i].resp.net = "ok" /\ ok(tr[i].resp) /\ tr[i].resp.body.json
       /\ Field(tr[i].resp.body.data, "status") \notin {"success", "failed"})
      => /\ Len(tr) > i
         /\ tr[i + 1] = SleepEvent(loc[p].pollInterval * TenthsPerSecond)
         /\ Len(tr) > i + 1 => tr[i + 2] = tr[i - 1]
         /\ Len(tr) = i + 1 => (outcome[p] = Pending /\ pc[p] = "wait_sleep")
         /\ (Len(tr) = i + 2 /\ ~lost[p]) => (outcome[p] = Pending /\ pc[p] = "wait_poll")

C25_Witness ==
  \E p \in Procs :
    /\ op[p] = "trainDetector" /\ pc[p] = "wait_poll" /\ ~lost[p]
    /\ StatusesOf(Answers(trace[p], "wait_poll")) = <<Undefined, "FAILED", "bogus">>
    /\ Len(PollRequests(trace[p])) = 4

\* --------------------------------------------------------------------- C26
\* C26: when the fetch of any request of any method rejects (a failure of
\* the transport, a status poll's included), the call is rejected with an
\* error that is not an ApiError, the rejected fetch is the invocation's last
\* event, and nothing is in flight or pending afterwards.
C26_TransportFailureSurfaces ==
  \A p \in Procs :
    \A i \in DOMAIN trace[p] :
      (trace[p][i].ev = "resp" /\ trace[p][i].resp.net = "error")
      => /\ outcome[p].state = "rejected"
         /\ outcome[p].error.name # "ApiError"
         /\ i = Len(trace[p])
         /\ inflight[p] = {}
         /\ pc[p] = "done"

\* --------------------------------------------------------------------- C27
\* the methods of the built client that poll against a deadline and name
\* the reason when they give up, and the error each names for a bad answer
DeadlineMethods == {"dist_uploadRaster", "dist_runDetector"}
UpstreamError(method) ==
  IF method = "dist_uploadRaster" THEN <<"Error uploading raster">>
  ELSE <<"Error detecting on raster">>
DeadlinePolls == {"raster_poll", "result_poll"}

\* the poll loop ended on this answer without the resource being ready
GaveUp(p) ==
  /\ outcome[p].state = "rejected"
  /\ trace[p] # <<>>
  /\ Last(trace[p]).ev = "resp"
  /\ Last(trace[p]).at \in DeadlinePolls
  /\ Last(trace[p]).resp.net = "ok"

\* C27: when a deadline-bounded poll loop of the built client (uploadRaster,
\* runDetector) ends without the resource being ready, the call is rejected
\* with 'Request timed-out' exactly when the last poll answer was 2xx and
\* with the method's upstream error exactly when it was not.
C27_TimedOutOrUpstreamError ==
  \A p \in Procs :
    op[p] \in DeadlineMethods =>
      /\ GaveUp(p) =>
           /\ outcome[p].error.name = "ApiError"
           /\ outcome[p].error.msg = <<"Request timed-out">> <=> ok(Last(trace[p]).resp)
           /\ outcome[p].error.msg = UpstreamError(op[p]) <=> ~ok(Last(trace[p]).resp)
      /\ (outcome[p].state = "rejected"
          /\ outcome[p].error.msg \in {<<"Request timed-out">>, UpstreamError(op[p])})
           => GaveUp(p)

C27_Witness ==
  \E p \in Procs :
    /\ op[p] = "dist_runDetector" /\ GaveUp(p)
    /\ ok(Last(trace[p]).resp)
    /\ Field(Last(trace[p]).resp.body.data, "ready") = "true"
    /\ outcome[p].error.msg = <<"Request timed-out">>

\* --------------------------------------------------------------------- C28
\* the awaits at which a poll loop receives the status of what it polls
StatusPolls == {"wait_poll", "raster_poll", "area_poll"}

\* C28: in every poll loop (the operation poller, the raster-status loop of
\* uploadRaster, the detection-area loop of setRasterDetectionAreaFromFile)
\* the first answer that reports the status 'failed' ends the polling: the
\* call is rejected on that answer and no sleep or request follows it.
C28_FailedIsTerminal ==
  \A p \in Procs :
    \A i \in DOMAIN trace[p] :
      LET e == trace[p][i] IN
      (e.ev = "resp" /\ e.at \in StatusPolls /\ StatusOf(e) = "failed")
      => /\ i = Len(trace[p])
         /\ outcome[p].state = "rejected"
         /\ inflight[p] = {}
         /\ pc[p] = "done"

\* --------------------------------------------------------------------- C29
\* the methods whose first statement is `createReadStream(fileName)`
StreamingMethods == {"uploadRaster", "setRasterDetectionAreaFromFile"}

\* the read streams of invocation p that are open: the stream is opened when
\* the method is entered, nothing in the method closes it, and it closes
\* itself only once fetch has read it to its end as the body of the PUT
createReadStream(p) ==
  IF /\ op[p] \in StreamingMethods
     /\ \A i \in DOMAIN trace[p] :
          ~(trace[p][i].ev = "resp" /\ trace[p][i].at = "put"
            /\ trace[p][i].resp.net = "ok")
    THEN {args[p].fileName}
    ELSE {}

\* C29: when uploadRaster or setRasterDetectionAreaFromFile has completed,
\* resolved or rejected at whatever step, no read stream it opened is open.
C29_StreamsClosedOnCompletion ==
  \A p \in Procs :
    (op[p] \in StreamingMethods /\ pc[p] = "done") => createReadStream(p) = {}

\* --------------------------------------------------------------------- C30
\* the first request of an uploadRaster: the initiate POST
InitiateOf(p) == trace[p][1].req

\* C30: the initiate body of uploadRaster is a JSON object that has the key
\* 'name' iff rasterName is not empty and the key 'folder_id' iff folderId is
\* not empty, each with the supplied value, and no other key (so it is the
\* empty object when neither was supplied); it is not the file stream.
C30_InitiateBody ==
  \A p \in Procs :
    (op[p] = "uploadRaster" /\ trace[p] # <<>>) =>
      LET r == InitiateOf(p) IN
      /\ r.method = "POST"
      /\ r.url = <<client.baseUrl, "rasters", "upload", "file">>
      /\ r.body.kind = "json"
      /\ r.body # StreamBody(args[p].fileName)
      /\ "name" \in DOMAIN r.body.json <=> args[p].rasterName # VStr(<<>>)
      /\ "folder_id" \in DOMAIN r.body.json <=> args[p].folderId # ""
      /\ DOMAIN r.body.json \subseteq {"name", "folder_id"}
      /\ "name" \in DOMAIN r.body.json => r.body.json["name"] = args[p].rasterName
      /\ "folder_id" \in DOMAIN r.body.json => r.body.json["folder_id"] = args[p].folderId
      /\ (args[p].rasterName = VStr(<<>>) /\ args[p].folderId = "") => r.body.json = <<>>

\* an uploadRaster with a folderId and no rasterName has sent its initiate
\* request and gone on to the PUT
C30_Witness ==
  \E p \in Procs :
    /\ op[p] = "uploadRaster"
    /\ args[p].rasterName = VStr(<<>>)
    /\ args[p].folderId # ""
    /\ pc[p] = "put"
    /\ DOMAIN InitiateOf(p).body.json = {"folder_id"}

\* --------------------------------------------------------------------- C31
DetectorMethods == {"createDetector", "editDetector"}

\* a string argument with every letter in lowercase, as the caller would
\* have written it
Lowered(x) ==
  IF x.t = "string" THEN VStr([i \in DOMAIN x.v |-> LowerChar(x.v[i])]) ELSE x

\* what the method called by p does up to its first await, for arguments a
DetectorCall(p, a) ==
  IF op[p] = "createDetector" THEN createDetector(client, a) ELSE editDetector(client, a)

\* C31: createDetector and editDetector treat a detection type that is
\* 'count' or 'segmentation' in any letter case exactly as they treat its
\* lowercase form, and every request they issue that carries a
\* configuration.detection_type carries 'count' or 'segmentation', the
\* lowercase form of what the caller gave; createDetector always carries one.
C31_DetectionTypeLowercased ==
  \A p \in Procs :
    op[p] \in DetectorMethods =>
      LET a == args[p] IN
      /\ ValidString(a.detectionType, detectionTypes)
           => DetectorCall(p, a) =
                DetectorCall(p, [a EXCEPT !.detectionType = Lowered(a.detectionType)])
      /\ trace[p] # <<>> =>
           LET conf == ConfigurationOf(trace[p][1].req.body.json) IN
           /\ op[p] = "createDetector" => "detection_type" \in DOMAIN conf
           /\ "detection_type" \in DOMAIN conf =>
                /\ conf["detection_type"] \in {VStr("count"), VStr("segmentation")}
                /\ conf["detection_type"] =
                     VStr(toLowerCase(Default(a.detectionType, VStr(<<"c","o","u","n","t">>)).v))

\* a detector call that was handed 'COUNT' or 'Segmentation' has sent its
\* request
C31_Witness ==
  \E p \in Procs :
    /\ op[p] \in DetectorMethods
    /\ args[p].detectionType.t = "string"
    /\ args[p].detectionType # Lowered(args[p].detectionType)
    /\ trace[p] # <<>>
    /\ "detection_type" \in DOMAIN ConfigurationOf(trace[p][1].req.body.json)

\* --------------------------------------------------------------------- C32
\* C32: createDetector and editDetector reject with a ValidationError, having
\* issued no request, every call whose output type is a string other than
\* 'polygon' and 'bbox' (compared in lowercase), whatever the other
\* arguments; and every request they issue that carries a
\* configuration.output_type carries 'polygon' or 'bbox'.
C32_BadOutputTypeRejected ==
  \A p \in Procs :
    op[p] \in DetectorMethods =>
      /\ (args[p].outputType.t = "string"
          /\ toLowerCase(args[p].outputType.v) \notin outputTypes)
         => /\ outcome[p].state = "rejected"
            /\ outcome[p].error.name = "Validation Error"
            /\ trace[p] = <<>>
            /\ inflight[p] = {}
      /\ trace[p] # <<>> =>
           LET conf == ConfigurationOf(trace[p][1].req.body.json) IN
           "output_type" \in DOMAIN conf =>
             conf["output_type"] \in {VStr("polygon"), VStr("bbox")}

\* --------------------------------------------------------------------- C33
\* the three deadline-bounded poll loops of the built client: the await of
\* the loop's sleep and the await of its status request
DeadlineLoops ==
  ("dist_uploadRaster" :> [sleep |-> "raster_sleep", poll |-> "raster_poll"]) @@
  ("dist_runDetector" :> [sleep |-> "result_sleep", poll |-> "result_poll"]) @@
  ("dist_setRasterDetectionAreaFromFile" :> [sleep |-> "area_sleep", poll |-> "area_poll"])

\* a 2xx answer that reports the polled resource ready
ReportsReady(e) ==
  /\ e.resp.net = "ok" /\ ok(e.resp) /\ e.resp.body.json
  /\ \/ Field(e.resp.body.data, "status") = "ready"
     \/ Field(e.resp.body.data, "ready") = "true"

\* the last event of p's trace is a poll answer seen after the deadline
LateAnswer(p) ==
  /\ trace[p] # <<>>
  /\ Last(trace[p]).ev = "resp"
  /\ Last(trace[p]).at = DeadlineLoops[op[p]].poll
  /\ loc[p].observedAt > loc[p].timeout

\* where the loop's first sleep stands in the trace (0: not yet begun)
FirstSleep(tr) ==
  IF \E i \in DOMAIN tr : tr[i].ev = "sleep"
    THEN CHOOSE i \in DOMAIN tr : tr[i].ev = "sleep" /\ \A j \in 1..(i - 1) : tr[j].ev # "sleep"
    ELSE 0

DistFairSpec ==
  DistSpec /\ \A p \in Procs : WF_vars(DistRespond(p)) /\ WF_vars(DistTimerFires(p))

\* the status requests of a deadline-bounded loop: the requests issued after
\* the loop's first sleep began
StatusRequests(p) ==
  LET i == FirstSleep(trace[p]) IN
  IF i = 0 THEN 0
  ELSE Cardinality({j \in DOMAIN trace[p] : j > i /\ trace[p][j].ev = "req"})

\* floor(t / p) + 1, t the stored _timeout and p the poll interval, both in
\* tenths of a second
MostStatusRequests(p) ==
  ((client._timeout \div MsPerTenth) \div (loc[p].pollInterval * TenthsPerSecond)) + 1

\* the loop of p does not outrun floor(t / p) + 1 status requests
WithinMostStatusRequests ==
  \A p \in Procs :
    (op[p] \in DOMAIN DeadlineLoops /\ FirstSleep(trace[p]) > 0)
    => /\ loc[p].pollInterval > 0
       /\ StatusRequests(p) <= MostStatusRequests(p)

\* C34: a call of the built client that polls against a deadline
\* (uploadRaster, runDetector, setRasterDetectionAreaFromFile), given a
\* positive poll interval p, completes whatever the server answers, and its
\* loop issues at most floor(t / p) + 1 status requests, t being the stored
\* _timeout.
C34_DeadlineLoopTerminates ==
  /\ []WithinMostStatusRequests
  /\ \A p \in Procs : (op[p] \in DOMAIN DeadlineLoops) ~> (pc[p] = "done")

\* a call that was answered 'not ready yet' in time on every poll but the
\* last has used up its floor(t / p) + 1 status requests and has timed out
C34_Witness ==
  \E p \in Procs :
    /\ op[p] \in DOMAIN DeadlineLoops
    /\ FirstSleep(trace[p]) > 0
    /\ StatusRequests(p) = MostStatusRequests(p)
    /\ StatusRequests(p) > 1
    /\ LateAnswer(p)
    /\ pc[p] = "done"
    /\ outcome[p].state = "rejected"

\* --------------------------------------------------------------------- C35
\* an HTTP answer with a status outside 200..299
Non2xx(e) == e.resp.net = "ok" /\ ~ok(e.resp)

\* C35: when the answer to page j of listRasters or listDetectors has a
\* non-2xx status, the call is rejected with an ApiError and yields no list,
\* not even the pages 1..j-1 it had fetched, and page j is the last page it
\* requested.
C35_FailedPageFailsTheList ==
  \A p \in Procs :
    op[p] \in ListMethods =>
      LET answers == Answers(trace[p], "page") IN
      \A j \in DOMAIN answers :
        Non2xx(answers[j])
        => /\ j = Len(answers)
           /\ Len(Requests(trace[p])) = j
           /\ Last(trace[p]) = answers[j]
           /\ inflight[p] = {}
           /\ pc[p] = "done"
           /\ outcome[p].state = "rejected"
           /\ outcome[p].error.name = "ApiError"
           /\ outcome[p].value = VUndef

\* a list call whose first two pages arrived and whose third page failed
C35_Witness ==
  \E p \in Procs :
    /\ op[p] \in ListMethods
    /\ LET answers == Answers(trace[p], "page") IN
       /\ Len(answers) = 3
       /\ IsPage(answers[1]) /\ IsPage(answers[2])
       /\ Non2xx(answers[3])
    /\ loc[p].list # <<>>
    /\ outcome[p].state = "rejected"

\* --------------------------------------------------------------------- C36
\* the list the source listRasters has built from these page answers:
\* list = list.concat(data['results']) for each page in turn
RECURSIVE SourceList(_, _)
SourceList(list, answers) ==
  IF answers = <<>> THEN list
  ELSE SourceList(Concat(list, Head(answers).resp.body.data, "results"), Tail(answers))

\* C36: the built client's listRasters (second build of dist/Client.js),
\* answered with pages of the form {results, next}, resolves to the list the
\* source listRasters resolves to: the pages' 'results' concatenated.
C36_DistListRastersAsSource ==
  \A p \in Procs :
    (op[p] = "dist_listRasters" /\ outcome[p].state = "resolved")
    => LET answers == Answers(trace[p], "page") IN
       /\ outcome[p].value = VList(SourceList(<<>>, answers))
       /\ outcome[p].value = VList(ResultsOf(answers))

====
